---- MODULE Spec2Model ----
(***************************************************************************)
(* Verification model of ShimiBot: the agent Turn Runner                   *)
(* (internal/agent/runner.go) and the argument normalizer it calls         *)
(* (tools.NormalizeJSONArguments).                                         *)
(*                                                                         *)
(* Text is modelled as a sequence of one-character strings so that         *)
(* trimming, scanning and JSON validation are computed character by        *)
(* character, as the Go code does.                                         *)
(***************************************************************************)
EXTENDS Integers, Sequences, FiniteSets, TLC

(***************************************************************************)
(* Bounds of the model.                                                    *)
(***************************************************************************)
\* provider calls the model follows within one RunPrompt when MaxTurns = 0
MaxProviderCalls == 2
\* tool calls a provider response carries at most
MaxCallsPerTurn == 2
\* RunPrompt invocations on the same Runner and history
MaxPrompts == 2
MaxRegistryCalls == 2

(***************************************************************************)
(* Text helpers (Go standard library functions used by the code).          *)
(***************************************************************************)
IsSpace(c) == c \in {" ", "\t", "\n", "\r"}

RECURSIVE TrimLeft(_)
TrimLeft(s) ==
    IF s = <<>> THEN s
    ELSE IF IsSpace(Head(s)) THEN TrimLeft(Tail(s)) ELSE s

RECURSIVE TrimRight(_)
TrimRight(s) ==
    IF s = <<>> THEN s
    ELSE IF IsSpace(s[Len(s)]) THEN TrimRight(SubSeq(s, 1, Len(s) - 1)) ELSE s

\* strings.TrimSpace
TrimSpace(s) == TrimRight(TrimLeft(s))

\* strings.TrimSpace(x) == ""
IsBlank(s) == TrimSpace(s) = <<>>

(***************************************************************************)
(* json.Valid: the scanner of encoding/json, a state machine that reads    *)
(* one character at a time and keeps a stack of the objects and arrays it  *)
(* is inside.  A scanner state is [step, stack, lit]: the step function    *)
(* that reads the next character, the parse-state stack, and the rest of   *)
(* a literal (true, false, null) being read.                               *)
(***************************************************************************)
IsJSONSpace(c) == c \in {" ", "\t", "\n", "\r"}

IsDigit(c) == c \in {"0", "1", "2", "3", "4", "5", "6", "7", "8", "9"}

IsHex(c) == IsDigit(c) \/ c \in {"a", "b", "c", "d", "e", "f", "A", "B", "C", "D", "E", "F"}

EscapeChars == {"\"", "\\", "/", "b", "f", "n", "r", "t"}

ScanError == [step |-> "error", stack |-> <<>>, lit |-> <<>>]

ScanBegin == [step |-> "beginValue", stack |-> <<>>, lit |-> <<>>]

Goto(st, step) == [st EXCEPT !.step = step]

ReplaceTop(st, parseState) == [st EXCEPT !.stack[Len(st.stack)] = parseState]

stateEndTop(st, c) == IF IsJSONSpace(c) THEN Goto(st, "endTop") ELSE ScanError

popParseState(st) ==
    LET rest == SubSeq(st.stack, 1, Len(st.stack) - 1)
    IN [st EXCEPT !.stack = rest, !.step = IF rest = <<>> THEN "endTop" ELSE "endValue"]

stateEndValue(st, c) ==
    IF st.stack = <<>> THEN stateEndTop(st, c)
    ELSE IF IsJSONSpace(c) THEN Goto(st, "endValue")
    ELSE LET top == st.stack[Len(st.stack)] IN
         IF top = "parseObjectKey" THEN
             IF c = ":" THEN Goto(ReplaceTop(st, "parseObjectValue"), "beginValue")
             ELSE ScanError
         ELSE IF top = "parseObjectValue" THEN
             IF c = "," THEN Goto(ReplaceTop(st, "parseObjectKey"), "beginString")
             ELSE IF c = "}" THEN popParseState(st)
             ELSE ScanError
         ELSE IF c = "," THEN Goto(st, "beginValue")
         ELSE IF c = "]" THEN popParseState(st)
         ELSE ScanError

stateE0(st, c) == IF IsDigit(c) THEN Goto(st, "E0") ELSE stateEndValue(st, c)

stateESign(st, c) == IF IsDigit(c) THEN Goto(st, "E0") ELSE ScanError

stateE(st, c) == IF c \in {"+", "-"} THEN Goto(st, "ESign") ELSE stateESign(st, c)

stateDot0(st, c) ==
    IF IsDigit(c) THEN Goto(st, "dot0")
    ELSE IF c \in {"e", "E"} THEN Goto(st, "E")
    ELSE stateEndValue(st, c)

stateDot(st, c) == IF IsDigit(c) THEN Goto(st, "dot0") ELSE ScanError

state0(st, c) ==
    IF c = "." THEN Goto(st, "dot")
    ELSE IF c \in {"e", "E"} THEN Goto(st, "E")
    ELSE stateEndValue(st, c)

state1(st, c) == IF IsDigit(c) THEN Goto(st, "1") ELSE state0(st, c)

stateNeg(st, c) ==
    IF c = "0" THEN Goto(st, "0")
    ELSE IF IsDigit(c) THEN Goto(st, "1")
    ELSE ScanError

\* the steps stateT, stateTr, ... stateNul: the rest of a literal
stateLiteral(st, c) ==
    IF c # Head(st.lit) THEN ScanError
    ELSE IF Len(st.lit) = 1 THEN [st EXCEPT !.lit = <<>>, !.step = "endValue"]
    ELSE [st EXCEPT !.lit = Tail(st.lit)]

\* the steps stateInStringEscU, ...U1, ...U12, ...U123: st.lit counts the hex digits left
stateInStringEscU(st, c) ==
    IF ~IsHex(c) THEN ScanError
    ELSE IF Len(st.lit) = 1 THEN [st EXCEPT !.lit = <<>>, !.step = "inString"]
    ELSE [st EXCEPT !.lit = Tail(st.lit)]

stateInStringEsc(st, c) ==
    IF c \in EscapeChars THEN Goto(st, "inString")
    ELSE IF c = "u" THEN [st EXCEPT !.lit = <<"h", "h", "h", "h">>, !.step = "inStringEscU"]
    ELSE ScanError

stateInString(st, c) ==
    IF c = "\"" THEN Goto(st, "endValue")
    ELSE IF c = "\\" THEN Goto(st, "inStringEsc")
    ELSE IF c \in {"\t", "\n", "\r"} THEN ScanError
    ELSE Goto(st, "inString")

stateBeginValue(st, c) ==
    IF IsJSONSpace(c) THEN Goto(st, "beginValue")
    ELSE IF c = "{" THEN
        [st EXCEPT !.stack = Append(st.stack, "parseObjectKey"), !.step = "beginStringOrEmpty"]
    ELSE IF c = "[" THEN
        [st EXCEPT !.stack = Append(st.stack, "parseArrayValue"), !.step = "beginValueOrEmpty"]
    ELSE IF c = "\"" THEN Goto(st, "inString")
    ELSE IF c = "-" THEN Goto(st, "neg")
    ELSE IF c = "0" THEN Goto(st, "0")
    ELSE IF c = "t" THEN [st EXCEPT !.lit = <<"r", "u", "e">>, !.step = "literal"]
    ELSE IF c = "f" THEN [st EXCEPT !.lit = <<"a", "l", "s", "e">>, !.step = "literal"]
    ELSE IF c = "n" THEN [st EXCEPT !.lit = <<"u", "l", "l">>, !.step = "literal"]
    ELSE IF IsDigit(c) THEN Goto(st, "1")
    ELSE ScanError

stateBeginString(st, c) ==
    IF IsJSONSpace(c) THEN Goto(st, "beginString")
    ELSE IF c = "\"" THEN Goto(st, "inString")
    ELSE ScanError

stateBeginStringOrEmpty(st, c) ==
    IF IsJSONSpace(c) THEN Goto(st, "beginStringOrEmpty")
    ELSE IF c = "}" THEN stateEndValue(ReplaceTop(st, "parseObjectValue"), c)
    ELSE stateBeginString(st, c)

stateBeginValueOrEmpty(st, c) ==
    IF IsJSONSpace(c) THEN Goto(st, "beginValueOrEmpty")
    ELSE IF c = "]" THEN stateEndValue(st, c)
    ELSE stateBeginValue(st, c)

\* s.step(s, c)
ScanStep(st, c) ==
    CASE st.step = "beginValue" -> stateBeginValue(st, c)
      [] st.step = "beginValueOrEmpty" -> stateBeginValueOrEmpty(st, c)
      [] st.step = "beginStringOrEmpty" -> stateBeginStringOrEmpty(st, c)
      [] st.step = "beginString" -> stateBeginString(st, c)
      [] st.step = "inString" -> stateInString(st, c)
      [] st.step = "inStringEsc" -> stateInStringEsc(st, c)
      [] st.step = "inStringEscU" -> stateInStringEscU(st, c)
      [] st.step = "neg" -> stateNeg(st, c)
      [] st.step = "0" -> state0(st, c)
      [] st.step = "1" -> state1(st, c)
      [] st.step = "dot" -> stateDot(st, c)
      [] st.step = "dot0" -> stateDot0(st, c)
      [] st.step = "E" -> stateE(st, c)
      [] st.step = "ESign" -> stateESign(st, c)
      [] st.step = "E0" -> stateE0(st, c)
      [] st.step = "literal" -> stateLiteral(st, c)
      [] st.step = "endValue" -> stateEndValue(st, c)
      [] st.step = "endTop" -> stateEndTop(st, c)
      [] OTHER -> ScanError

\* checkValid: the scanner reads every character, stopping at an error
RECURSIVE ScanRun(_, _, _)
ScanRun(s, i, st) ==
    IF st.step = "error" \/ i > Len(s) THEN st
    ELSE ScanRun(s, i + 1, ScanStep(st, s[i]))

\* json.Valid([]byte(s)): no error, and the value has ended at the end of
\* the input, possibly after one more space is read
JSONValid(s) ==
    LET st == ScanRun(s, 1, ScanBegin)
    IN /\ st.step # "error"
       /\ \/ st.step = "endTop"
          \/ ScanStep(st, " ").step = "endTop"

(***************************************************************************)
(* tools.extractBalancedJSON and tools.NormalizeJSONArguments.             *)
(***************************************************************************)
\* the loop body of extractBalancedJSON from position i on, with the
\* loop's local variables as parameters (start = 0 stands for Go's -1)
RECURSIVE extractScan(_, _, _, _, _, _, _, _)
extractScan(input, open, close, i, start, depth, inString, escaped) ==
    IF i > Len(input) THEN [text |-> <<>>, ok |-> FALSE]
    ELSE LET r == input[i] IN
      IF inString THEN
        IF escaped THEN extractScan(input, open, close, i + 1, start, depth, TRUE, FALSE)
        ELSE IF r = "\\" THEN extractScan(input, open, close, i + 1, start, depth, TRUE, TRUE)
        ELSE IF r = "\"" THEN extractScan(input, open, close, i + 1, start, depth, FALSE, FALSE)
        ELSE extractScan(input, open, close, i + 1, start, depth, TRUE, FALSE)
      ELSE IF r = "\"" THEN extractScan(input, open, close, i + 1, start, depth, TRUE, escaped)
      ELSE IF r = open THEN
        extractScan(input, open, close, i + 1,
                    IF start = 0 THEN i ELSE start, depth + 1, FALSE, escaped)
      ELSE IF r = close THEN
        IF depth = 0 THEN extractScan(input, open, close, i + 1, start, depth, FALSE, escaped)
        ELSE IF depth - 1 = 0 /\ start > 0
             THEN [text |-> TrimSpace(SubSeq(input, start, i)), ok |-> TRUE]
             ELSE extractScan(input, open, close, i + 1, start, depth - 1, FALSE, escaped)
      ELSE extractScan(input, open, close, i + 1, start, depth, FALSE, escaped)

extractBalancedJSON(input, open, close) ==
    extractScan(input, open, close, 1, 0, 0, FALSE, FALSE)

EmptyObject == <<"{", "}">>

NormalizeJSONArguments(raw) ==
    LET trimmed == TrimSpace(raw)
        obj == extractBalancedJSON(trimmed, "{", "}")
        arr == extractBalancedJSON(trimmed, "[", "]")
    IN IF trimmed = <<>> THEN [text |-> EmptyObject, valid |-> TRUE]
       ELSE IF JSONValid(trimmed) THEN [text |-> trimmed, valid |-> TRUE]
       ELSE IF obj.ok /\ JSONValid(obj.text) THEN [text |-> obj.text, valid |-> TRUE]
       ELSE IF arr.ok /\ JSONValid(arr.text) THEN [text |-> arr.text, valid |-> TRUE]
       ELSE [text |-> <<>>, valid |-> FALSE]

\* a variant that returns the text as it came, blanks included
NormalizeJSONArguments_NoTrim(raw) ==
    IF TrimSpace(raw) = <<>> THEN [text |-> EmptyObject, valid |-> TRUE]
    ELSE IF JSONValid(raw) THEN [text |-> raw, valid |-> TRUE]
    ELSE NormalizeJSONArguments(raw)

\* a variant that returns the first balanced span without asking
\* json.Valid about it
NormalizeJSONArguments_Unchecked(raw) ==
    IF TrimSpace(raw) = <<>> THEN [text |-> EmptyObject, valid |-> TRUE]
    ELSE IF JSONValid(TrimSpace(raw)) THEN [text |-> TrimSpace(raw), valid |-> TRUE]
    ELSE IF extractBalancedJSON(TrimSpace(raw), "{", "}").ok
    THEN [text |-> extractBalancedJSON(TrimSpace(raw), "{", "}").text, valid |-> TRUE]
    ELSE [text |-> <<>>, valid |-> FALSE]

\* tools.NormalizeJSONArguments(raw) as its callers use it
Normalize(raw) == NormalizeJSONArguments(raw)

(***************************************************************************)
(* The texts NormalizeJSONArguments is given: every text of at most        *)
(* MaxInputLen characters of a small alphabet, and JSON objects with       *)
(* prose before and after them.                                            *)
(***************************************************************************)
MaxInputLen == 4

InputAlphabet == {"{", "}", "[", "]", "\"", "\\", "1", " "}

RECURSIVE TextsUpTo(_, _)
TextsUpTo(alphabet, n) ==
    IF n = 0 THEN {<<>>}
    ELSE TextsUpTo(alphabet, n - 1)
         \cup {Append(text, c) : text \in {t \in TextsUpTo(alphabet, n - 1) : Len(t) = n - 1}, c \in alphabet}

\* the JSON objects found in prose
Objects ==
    { <<"{", "}">>,
      <<"{", "\"", "a", "\"", ":", "1", "}">>,
      <<"{", "\"", "a", "\"", ":", "\"", "}", "\"", "}">>,
      <<"{", "\"", "a", "\"", ":", "{", "}", "}">>,
      <<"{", " ", "\"", "\\", "\"", "\"", ":", "[", "1", "]", " ", "}">> }

\* what prose is written with: letters, blanks, quote characters,
\* backslashes and closing braces
ProseAlphabet == {"x", " ", "\"", "\\", "}"}

\* a text with the parts it was put together from; a text that was not
\* put together has no span
Input(before, span, after) ==
    [op |-> "input", raw |-> before \o span \o after, before |-> before, span |-> span,
     after |-> after, first |-> [text |-> <<>>, valid |-> FALSE],
     second |-> [text |-> <<>>, valid |-> FALSE]]

NoInput == [Input(<<>>, <<>>, <<>>) EXCEPT !.op = "none"]

NormalizeInputs ==
    { Input(raw, <<>>, <<>>) : raw \in TextsUpTo(InputAlphabet, MaxInputLen) }
    \cup { Input(before, span, after) :
             before \in TextsUpTo(ProseAlphabet, 2), span \in Objects,
             after \in TextsUpTo(ProseAlphabet, 1) }

(***************************************************************************)
(* llm.Message, llm.ToolCall and the values the environment supplies.      *)
(***************************************************************************)
RoleSystem == "system"
RoleUser == "user"
RoleAssistant == "assistant"
RoleTool == "tool"

Message(role, content, toolCallID, calls) ==
    [Role |-> role, Content |-> content, ToolCallID |-> toolCallID, ToolCalls |-> calls]

ToolCall(id, name, arguments) == [ID |-> id, Name |-> name, Arguments |-> arguments]

\* errors RunPrompt can return ("nil" is Go's nil error)
ErrNil == "nil"
ErrMaxTurnsExceeded == "max turns exceeded"
ErrToolCallBudgetExceeded == "tool call budget exceeded"
ErrMissingClient == "agent runner missing llm client"
ErrMissingExecutor == "agent runner missing tool executor"
ErrNoChoices == "no choices in response"
ErrCanceled == "context canceled"
ErrProvider == "provider error"
ErrUnsupportedRole == "unsupported message role"

\* Policy values a Runner is constructed with (0 = unlimited)
PolicyChoices == {[MaxTurns |-> t, MaxToolCalls |-> c] : t \in {0, 1, 2}, c \in {0, 1, 2}}

\* histories the caller owns before the first prompt: the system message
\* alone, or followed by a message whose role is none of the four
InitialHistories ==
    { <<Message(RoleSystem, <<"s">>, <<>>, <<>>)>>,
      <<Message(RoleSystem, <<"s">>, <<>>, <<>>), Message("developer", <<"d">>, <<>>, <<>>)>> }

Prompts == {<<"p">>}

\* tool calls a provider may return: one whose arguments are wrapped in
\* prose, one whose arguments are unrecoverable, one with a
\* whitespace-only id and one with an empty name and no arguments
ToolCallPool ==
    { ToolCall(<<"1">>, <<"R">>, <<" ", "[", "1", "]", "x">>),
      ToolCall(<<"2">>, <<"W">>, <<"{">>),
      ToolCall(<<" ">>, <<"R">>, <<"{", "}">>),
      ToolCall(<<"3">>, <<>>, <<>>) }

RECURSIVE SeqsUpTo(_, _)
SeqsUpTo(S, n) ==
    IF n = 0 THEN {<<>>}
    ELSE LET shorter == SeqsUpTo(S, n - 1)
         IN shorter \cup {Append(q, x) : q \in shorter, x \in S}

Digit(n) == <<<<"0", "1", "2", "3", "4", "5", "6", "7", "8", "9">>[(n % 10) + 1]>>

\* contents the provider answers on its n-th call of an invocation: a
\* text that names the call or, when the environment allows it, a
\* whitespace-only text
ContentsFor(e, n) == {<<"a">> \o Digit(n)} \cup (IF e.blankContent THEN {<<" ">>} ELSE {})

FinishReasons == {"stop", "tool_calls"}

\* llm.Choice values the provider may return on its n-th call
ChoicesFor(e, n) ==
    { [FinishReason |-> f, Message |-> Message(RoleAssistant, c, <<>>, calls)] :
        f \in FinishReasons, c \in ContentsFor(e, n),
        calls \in SeqsUpTo(e.pool, MaxCallsPerTurn) }

\* toOpenAIMessages fails on a message whose role is none of the four
HasUnsupportedRole(messages) ==
    \E i \in 1..Len(messages) :
        messages[i].Role \notin {RoleSystem, RoleUser, RoleAssistant, RoleTool}

\* what Complete returns is an error or a llm.CompletionResponse.
\* the errors: the unsupported role of a message of the request; else a
\* failure of the provider or, once the context is cancelled, the
\* context's error
CompleteErrors(cancelled, messages) ==
    IF HasUnsupportedRole(messages) THEN {ErrUnsupportedRole}
    ELSE {ErrProvider} \cup (IF cancelled THEN {ErrCanceled} ELSE {})

\* a response without choices
EmptyResponse == [Choices |-> <<>>]

\* the responses with a choice the provider may return on its n-th call
ResponsesWithChoice(e, n) == {[Choices |-> <<c>>] : c \in ChoicesFor(e, n)}

(***************************************************************************)
(* tools.ResponseEnvelope, tools.ToolContext and tools.Registry.  A text   *)
(* is a sequence of strings that reads as their concatenation.             *)
(***************************************************************************)
\* values of Go's any that a capability returns: the nil interface, a
\* string (the empty one included) and a value json.Marshal refuses
NilValue == [kind |-> "nil", val |-> <<>>]
StringValue(text) == [kind |-> "string", val |-> text]
UnencodableValue == [kind |-> "unencodable", val |-> <<>>]

\* a nil *ResponseError
NoError == [isNil |-> TRUE, Message |-> <<>>]

ResponseError(message) == [isNil |-> FALSE, Message |-> message]

\* a map[string]any without entries
EmptyMeta == [k \in {} |-> <<>>]

ResponseEnvelope(ok, data, error, meta) == [OK |-> ok, Data |-> data, Error |-> error, Meta |-> meta]

\* the fixed text encodeEnvelope returns when json.Marshal fails, as the
\* JSON object it spells
FallbackEnvelope ==
    [k \in {"ok", "error"} |->
        IF k = "ok" THEN [bool |-> FALSE]
        ELSE [message |-> <<"failed to encode tool response envelope">>]]

\* the members json.Marshal writes for a ResponseEnvelope: ok always;
\* data, error and meta only when not empty (omitempty)
EnvelopeMembers(envelope) ==
    {"ok"} \cup (IF envelope.Data.kind = "nil" THEN {} ELSE {"data"})
           \cup (IF envelope.Error.isNil THEN {} ELSE {"error"})
           \cup (IF DOMAIN envelope.Meta = {} THEN {} ELSE {"meta"})

\* encodeEnvelope: the JSON object of the envelope, member by member
encodeEnvelope(envelope) ==
    IF envelope.Data.kind = "unencodable" THEN FallbackEnvelope
    ELSE [k \in EnvelopeMembers(envelope) |->
            CASE k = "ok" -> [bool |-> envelope.OK]
              [] k = "data" -> envelope.Data
              [] k = "error" -> [message |-> envelope.Error.Message]
              [] k = "meta" -> envelope.Meta]

\* SuccessEnvelope(data, meta)
SuccessEnvelope(data, meta) == encodeEnvelope(ResponseEnvelope(TRUE, data, NoError, meta))

\* ErrorEnvelope(message, meta)
ErrorEnvelope(message, meta) ==
    encodeEnvelope(ResponseEnvelope(FALSE, NilValue, ResponseError(message), meta))

\* json.Unmarshal of an envelope text into a ResponseEnvelope: a member
\* that is missing leaves the zero value of its field
DecodeEnvelope(object) ==
    ResponseEnvelope(
        IF "ok" \in DOMAIN object THEN object["ok"].bool ELSE FALSE,
        IF "data" \in DOMAIN object THEN object["data"] ELSE NilValue,
        IF "error" \in DOMAIN object THEN ResponseError(object["error"].message) ELSE NoError,
        IF "meta" \in DOMAIN object THEN object["meta"] ELSE EmptyMeta)

\* states of ToolContext.Context: no context, a live one, a cancelled one
\* and one whose deadline has passed
ContextStates == {"nil", "live", "canceled", "deadline"}

ToolContext(cwd, allowedRoot, timeout, context, correlationID) ==
    [CWD |-> cwd, AllowedRoot |-> allowedRoot, Timeout |-> timeout,
     Context |-> context, CorrelationID |-> correlationID]

\* toolContext.Context.Err(), "nil" when there is none
ContextErr(toolContext) ==
    CASE toolContext.Context = "canceled" -> "context canceled"
      [] toolContext.Context = "deadline" -> "context deadline exceeded"
      [] OTHER -> "nil"

\* a capability: its name and the description of its definition
Tool(name, description) == [name |-> name, description |-> description]

\* tool.Definition()
Definition(tool) == [Name |-> tool.name, Description |-> tool.description]

\* what a capability's Execute returns: (result, err), err = <<>> for nil
ToolOutcome(result, err) == [result |-> result, err |-> err]

\* a *Registry that is nil
NilRegistry == [isNil |-> TRUE, tools |-> [n \in {} |-> Tool(<<>>, "")]]

\* NewRegistry: byName[tool.Name()] = tool for each tool of the list, in order
RECURSIVE ByName(_)
ByName(toolList) ==
    IF toolList = <<>> THEN [n \in {} |-> Tool(<<>>, "")]
    ELSE LET before == ByName(SubSeq(toolList, 1, Len(toolList) - 1))
             tool == toolList[Len(toolList)]
         IN [n \in DOMAIN before \cup {tool.name} |-> IF n = tool.name THEN tool ELSE before[n]]

NewRegistry(toolList) == [isNil |-> FALSE, tools |-> ByName(toolList)]

\* the bytes of the characters tool names are written with
ByteOf(c) ==
    CASE c = "B" -> 66 [] c = "R" -> 82 [] c = "W" -> 87 [] c = "a" -> 97 [] c = "e" -> 101

\* a < b for Go strings: byte by byte, a proper prefix first
RECURSIVE StringLess(_, _)
StringLess(a, b) ==
    IF b = <<>> THEN FALSE
    ELSE IF a = <<>> THEN TRUE
    ELSE IF ByteOf(Head(a)) # ByteOf(Head(b)) THEN ByteOf(Head(a)) < ByteOf(Head(b))
    ELSE StringLess(Tail(a), Tail(b))

\* one name put at its place in a sorted list
RECURSIVE InsertSorted(_, _)
InsertSorted(name, sorted) ==
    IF sorted = <<>> THEN <<name>>
    ELSE IF StringLess(Head(sorted), name) THEN <<Head(sorted)>> \o InsertSorted(name, Tail(sorted))
    ELSE <<name>> \o sorted

\* a Definitions that leaves the names in the order the map yields them
SortStrings_Unsorted(names) == names

\* sort.Strings(names)
RECURSIVE SortStrings(_)
SortStrings(names) ==
    IF names = <<>> THEN <<>> ELSE InsertSorted(Head(names), SortStrings(Tail(names)))

\* the orders in which "for name := range registry.tools" can yield the names
KeyOrders(registry) ==
    LET keys == DOMAIN registry.tools
        n == Cardinality(keys)
    IN {order \in [1..n -> keys] : \A i, j \in 1..n : order[i] = order[j] => i = j}

\* Registry.Definitions(), the map being ranged over in the given order
Definitions(registry, order) ==
    LET names == SortStrings(order)
    IN [i \in 1..Len(names) |-> Definition(registry.tools[names[i]])]

(***************************************************************************)
(* Paths (path/filepath).  The text of a path is a sequence of chunks: a   *)
(* separator, a name, ".", ".." or a space.                                *)
(***************************************************************************)
Separator == "/"

\* a path as filepath reads it: rooted or not, and its elements in order
Path(abs, parts) == [abs |-> abs, parts |-> parts]

\* the text of a path split at its separators; empty elements vanish
ParsePath(text) ==
    Path(text # <<>> /\ text[1] = Separator,
         SelectSeq(text, LAMBDA chunk : chunk # Separator))

\* filepath.IsAbs
IsAbs(path) == path.abs

\* the empty string
IsEmptyPath(path) == ~path.abs /\ path.parts = <<>>

RECURSIVE CleanParts(_, _, _)
\* filepath.Clean, element by element and without looking at any file:
\* "." is dropped; ".." removes the element before it, is dropped at the
\* root, and is kept at the start of a path that is not rooted
CleanParts(abs, done, rest) ==
    IF rest = <<>> THEN done
    ELSE IF Head(rest) = "." THEN CleanParts(abs, done, Tail(rest))
    ELSE IF Head(rest) # ".." THEN CleanParts(abs, Append(done, Head(rest)), Tail(rest))
    ELSE IF done # <<>> /\ done[Len(done)] # ".."
         THEN CleanParts(abs, SubSeq(done, 1, Len(done) - 1), Tail(rest))
    ELSE IF abs THEN CleanParts(abs, done, Tail(rest))
    ELSE CleanParts(abs, Append(done, ".."), Tail(rest))

\* filepath.Clean
Clean(path) == Path(path.abs, CleanParts(path.abs, <<>>, path.parts))

\* filepath.Join of two elements: empty elements are ignored, the result is cleaned
Join(a, b) ==
    Clean(Path(IF IsEmptyPath(a) THEN b.abs ELSE a.abs, a.parts \o b.parts))

\* filepath.Dir of a clean path
Dir(path) ==
    IF path.parts = <<>> THEN path
    ELSE Path(path.abs, SubSeq(path.parts, 1, Len(path.parts) - 1))

\* os.Getwd(): the directory the process runs in
Getwd == Path(TRUE, <<"w">>)

\* filepath.Abs
Abs(path) == IF IsAbs(path) THEN Clean(path) ELSE Join(Getwd, path)

\* the number of leading elements two clean paths share
CommonLen(a, b) ==
    Cardinality({k \in 1..Len(a) : k <= Len(b) /\ SubSeq(a, 1, k) = SubSeq(b, 1, k)})

\* filepath.Rel(base, target) of two clean rooted paths: one ".." for every
\* element of base that target does not share, then the rest of target
Rel(base, target) ==
    Path(FALSE,
         [i \in 1..(Len(base.parts) - CommonLen(base.parts, target.parts)) |-> ".."]
            \o SubSeq(target.parts, CommonLen(base.parts, target.parts) + 1, Len(target.parts)))

\* relPath == ".." || strings.HasPrefix(relPath, ".."+string(os.PathSeparator))
EscapesRoot(relPath) == relPath.parts # <<>> /\ relPath.parts[1] = ".."

(***************************************************************************)
(* The filesystem (os, the kernel's path walk).  A filesystem maps the     *)
(* real location of every file, directory and symlink to a node.           *)
(***************************************************************************)
MaxLinks == 3
MaxPathLen == 3

ENOENT == "no such file or directory"
ENOTDIR == "not a directory"
EISDIR == "is a directory"
ELOOP == "too many levels of symbolic links"

NoPath == Path(FALSE, <<>>)

DirNode == [kind |-> "dir", target |-> NoPath, content |-> <<>>]
FileNode(content) == [kind |-> "file", target |-> NoPath, content |-> content]
LinkNode(target) == [kind |-> "symlink", target |-> target, content |-> <<>>]

\* the directory that ".." names in the directory at a real location
Parent(at) == IF at = <<>> THEN at ELSE SubSeq(at, 1, Len(at) - 1)

RECURSIVE Walk(_, _, _, _, _)
\* the walk of a path from the directory at the real location at, over
\* the elements rest: ".." is the parent of the real directory reached, a
\* symlink is replaced by its target (the last element only if follow),
\* at most links times.  The value is the real location reached; on
\* ENOENT, the real location that is missing and the elements after it
Walk(fs, at, rest, follow, links) ==
    IF rest = <<>> THEN [err |-> "", at |-> at, rest |-> <<>>]
    ELSE IF fs[at].kind # "dir" THEN [err |-> ENOTDIR, at |-> at, rest |-> rest]
    ELSE IF Head(rest) = "." THEN Walk(fs, at, Tail(rest), follow, links)
    ELSE IF Head(rest) = ".." THEN Walk(fs, Parent(at), Tail(rest), follow, links)
    ELSE IF Append(at, Head(rest)) \notin DOMAIN fs
         THEN [err |-> ENOENT, at |-> Append(at, Head(rest)), rest |-> Tail(rest)]
    ELSE IF fs[Append(at, Head(rest))].kind = "symlink" /\ (follow \/ Tail(rest) # <<>>)
         THEN IF links = 0 THEN [err |-> ELOOP, at |-> at, rest |-> rest]
              ELSE Walk(fs,
                        IF fs[Append(at, Head(rest))].target.abs THEN <<>> ELSE at,
                        fs[Append(at, Head(rest))].target.parts \o Tail(rest),
                        follow, links - 1)
    ELSE Walk(fs, Append(at, Head(rest)), Tail(rest), follow, links)

\* the directory a walk of the path starts in
WalkStart(path) == IF path.abs THEN <<>> ELSE Getwd.parts

\* the walk open(2), stat(2) and readdir make: every symlink is followed
Open(fs, path) == Walk(fs, WalkStart(path), path.parts, TRUE, MaxLinks)

\* os.Lstat(path): the error, "" for none; a symlink that is the last
\* element is not followed
Lstat(fs, path) == Walk(fs, WalkStart(path), path.parts, FALSE, MaxLinks).err

\* the value of a call that returns a path and an error
PathResult(err, path) == [err |-> err, path |-> path]

\* what EvalSymlinks makes of the walk it has made
Evaluated(walked) ==
    IF walked.err = "" THEN PathResult("", Path(TRUE, walked.at))
    ELSE PathResult(walked.err, NoPath)

\* filepath.EvalSymlinks(path) of a rooted path: the real location, or the
\* error of the first element that cannot be walked
EvalSymlinks(fs, path) == Evaluated(Open(fs, path))

RECURSIVE ExistingParentFrom(_, _)
\* the loop of findExistingParent
ExistingParentFrom(fs, current) ==
    IF Lstat(fs, current) = "" THEN PathResult("", current)
    ELSE IF Lstat(fs, current) # ENOENT THEN PathResult(Lstat(fs, current), NoPath)
    ELSE IF Dir(current) = current THEN PathResult("no existing parent found for path", NoPath)
    ELSE ExistingParentFrom(fs, Dir(current))

\* findExistingParent(path)
findExistingParent(fs, path) == ExistingParentFrom(fs, Clean(path))

\* the end of resolveRealPath: the real parent with the remainder joined on
RejoinRemainder(realParent, existingParent, absPath) ==
    IF realParent.err # "" THEN PathResult(realParent.err, NoPath)
    ELSE PathResult("", Clean(Join(realParent.path, Rel(existingParent, absPath))))

\* resolveRealPath after EvalSymlinks has failed with ErrNotExist
ResolveFromParent(fs, existingParent, absPath) ==
    IF existingParent.err # "" THEN PathResult(existingParent.err, NoPath)
    ELSE RejoinRemainder(EvalSymlinks(fs, existingParent.path), existingParent.path, absPath)

\* resolveRealPath after its call of EvalSymlinks
ResolvedOr(fs, realPath, absPath) ==
    IF realPath.err = "" THEN realPath
    ELSE IF realPath.err # ENOENT THEN PathResult(realPath.err, NoPath)
    ELSE ResolveFromParent(fs, findExistingParent(fs, absPath), absPath)

\* resolveRealPath(absPath)
resolveRealPath(fs, absPath) == ResolvedOr(fs, EvalSymlinks(fs, absPath), absPath)

ErrAllowedRootRequired == "invalid tool context: allowed_root is required"
ErrAllowedRootSymlinks == "failed to evaluate allowed_root symlinks"
ErrPathSymlinks == "failed to evaluate path symlinks"
ErrOutsideRoot == "path is outside allowed_root"

\* the end of EnsurePathAllowed: the relative path from the real root to
\* the real path must not begin with ".."
PathPolicy(realRoot, realPath) ==
    IF realPath.err # "" THEN ErrPathSymlinks
    ELSE IF EscapesRoot(Rel(realRoot, realPath.path)) THEN ErrOutsideRoot
    ELSE ""

\* EnsurePathAllowed after the real root has been evaluated
PathPolicyUnder(fs, realRoot, resolvedPath) ==
    IF realRoot.err # "" THEN ErrAllowedRootSymlinks
    ELSE PathPolicy(realRoot.path, resolveRealPath(fs, Abs(resolvedPath)))

\* EnsurePathAllowed(ctx, resolvedPath): the error, "" for nil
EnsurePathAllowed(fs, toolContext, resolvedPath) ==
    IF TrimSpace(toolContext.AllowedRoot) = <<>> THEN ErrAllowedRootRequired
    ELSE PathPolicyUnder(fs, EvalSymlinks(fs, Abs(ParsePath(TrimSpace(toolContext.AllowedRoot)))),
                         resolvedPath)

\* a text, or "." for a blank one
OrDot(text) == IF TrimSpace(text) = <<>> THEN <<".">> ELSE TrimSpace(text)

\* ResolvePath(ctx, pathValue): a rooted path as it is written, any other
\* one joined to the cwd of the context
ResolvePath(toolContext, pathValue) ==
    IF IsAbs(ParsePath(OrDot(pathValue))) THEN ParsePath(OrDot(pathValue))
    ELSE Join(ParsePath(OrDot(toolContext.CWD)), ParsePath(OrDot(pathValue)))

(***************************************************************************)
(* The file capabilities (Read, Write, EditPatch, ListDir).  A call has    *)
(* an error ("" for none), the real locations it has opened, the data it   *)
(* has got from them, and the filesystem it leaves.                        *)
(***************************************************************************)
\* the map EditPatch returns, and the "" it returns with an error
EditResult(filePath, replacements, replaceAll, totalMatches) ==
    [file_path |-> filePath, replacements |-> replacements, replace_all |-> replaceAll,
     total_matches |-> totalMatches]

NoEditResult == EditResult(<<>>, 0, FALSE, 0)

Accessed(err, opened, data, fs) ==
    [err |-> err, opened |-> opened, data |-> data, fs |-> fs, result |-> NoEditResult]

\* a call that fails before it opens anything
Refused(err, fs) == Accessed(err, {}, <<>>, fs)

\* os.ReadFile once the path has been walked: a directory can be opened
\* but not read
ReadWalked(fs, walked) ==
    IF walked.err # "" THEN Refused(walked.err, fs)
    ELSE IF fs[walked.at].kind = "dir" THEN Accessed(EISDIR, {walked.at}, <<>>, fs)
    ELSE Accessed("", {walked.at}, fs[walked.at].content, fs)

\* os.ReadFile(name)
ReadFile(fs, name) == ReadWalked(fs, Open(fs, name))

\* os.WriteFile once the path has been walked: a file is truncated and
\* written; a missing last element is created in its directory, which is
\* the target's directory when the last element is a dangling symlink
WriteWalked(fs, walked, content) ==
    IF walked.err = ""
    THEN IF fs[walked.at].kind = "dir" THEN Refused(EISDIR, fs)
         ELSE Accessed("", {walked.at}, <<>>, [fs EXCEPT ![walked.at] = FileNode(content)])
    ELSE IF walked.err = ENOENT /\ walked.rest = <<>>
    THEN Accessed("", {walked.at}, <<>>,
                  [at \in DOMAIN fs \cup {walked.at} |->
                      IF at = walked.at THEN FileNode(content) ELSE fs[at]])
    ELSE Refused(walked.err, fs)

\* os.WriteFile(name, data, 0644)
WriteFile(fs, name, content) == WriteWalked(fs, Open(fs, name), content)

\* the entries of the directory at a real location, with the kind ListDir
\* reports for each: "dir" for a directory, "file" for anything else
Entries(fs, at) ==
    { [name |-> child[Len(child)],
       type |-> IF fs[child].kind = "dir" THEN "dir" ELSE "file"] :
        child \in {c \in DOMAIN fs : Len(c) = Len(at) + 1 /\ SubSeq(c, 1, Len(at)) = at} }

\* os.ReadDir once the path has been walked
ReadDirWalked(fs, walked) ==
    IF walked.err # "" THEN Refused(walked.err, fs)
    ELSE IF fs[walked.at].kind # "dir" THEN Accessed(ENOTDIR, {walked.at}, <<>>, fs)
    ELSE Accessed("", {walked.at}, Entries(fs, walked.at), fs)

\* os.ReadDir(name)
ReadDir(fs, name) == ReadDirWalked(fs, Open(fs, name))

ErrFilePathRequired == <<"file_path must be a non-empty string">>
ErrOldStringRequired == <<"old_string must be a non-empty string">>
ErrOldStringNotFound == <<"old_string not found in file">>
PathPolicyViolation == "path policy violation: "

\* fmt.Errorf(prefix+"%w", err) around the error of a call, if it has one
Wrapped(prefix, accessed) ==
    IF accessed.err = "" THEN accessed
    ELSE [accessed EXCEPT !.err = <<prefix, accessed.err>>]

\* ReadTool.Execute after EnsurePathAllowed
ReadChecked(fs, policyErr, resolvedPath) ==
    IF policyErr # "" THEN Refused(<<PathPolicyViolation, policyErr>>, fs)
    ELSE Wrapped("error reading file: ", ReadFile(fs, resolvedPath))

\* ReadTool.Execute after ResolvePath
ReadResolved(fs, toolContext, resolvedPath) ==
    ReadChecked(fs, EnsurePathAllowed(fs, toolContext, resolvedPath), resolvedPath)

\* ReadTool.Execute(ctx, arguments), file_path being what the arguments hold
ReadExecute(fs, toolContext, filePath) ==
    IF TrimSpace(filePath) = <<>> THEN Refused(ErrFilePathRequired, fs)
    ELSE ReadResolved(fs, toolContext, ResolvePath(toolContext, TrimSpace(filePath)))

\* WriteTool.Execute after EnsurePathAllowed
WriteChecked(fs, policyErr, resolvedPath, content) ==
    IF policyErr # "" THEN Refused(<<PathPolicyViolation, policyErr>>, fs)
    ELSE Wrapped("error writing file: ", WriteFile(fs, resolvedPath, content))

\* WriteTool.Execute after ResolvePath
WriteResolved(fs, toolContext, resolvedPath, content) ==
    WriteChecked(fs, EnsurePathAllowed(fs, toolContext, resolvedPath), resolvedPath, content)

\* WriteTool.Execute(ctx, arguments)
WriteExecute(fs, toolContext, filePath, content) ==
    IF TrimSpace(filePath) = <<>> THEN Refused(ErrFilePathRequired, fs)
    ELSE WriteResolved(fs, toolContext, ResolvePath(toolContext, TrimSpace(filePath)), content)

\* the text s has substr at position i
HasAt(s, substr, i) == SubSeq(s, i, i + Len(substr) - 1) = substr

\* strings.Index(s, substr): the position of the first match, 0 for none
Index(s, substr) ==
    IF \E i \in 1..(Len(s) - Len(substr) + 1) : HasAt(s, substr, i)
    THEN CHOOSE i \in 1..(Len(s) - Len(substr) + 1) :
            HasAt(s, substr, i) /\ \A j \in 1..(i - 1) : ~HasAt(s, substr, j)
    ELSE 0

\* a count of every position at which substr stands, overlapping or not
Count_Overlapping(s, substr) ==
    Cardinality({i \in 1..(Len(s) - Len(substr) + 1) : HasAt(s, substr, i)})

\* strings.Count(s, substr): the search goes on behind each match
RECURSIVE Count(_, _)
Count(s, substr) ==
    IF substr = <<>> THEN Len(s) + 1
    ELSE IF Index(s, substr) = 0 THEN 0
    ELSE 1 + Count(SubSeq(s, Index(s, substr) + Len(substr), Len(s)), substr)

\* the loop of strings.Replace for a non-empty old: n matches are
\* replaced, each searched behind the one before
RECURSIVE ReplaceMatches(_, _, _, _)
ReplaceMatches(s, old, new, n) ==
    IF n = 0 THEN s
    ELSE SubSeq(s, 1, Index(s, old) - 1) \o new
         \o ReplaceMatches(SubSeq(s, Index(s, old) + Len(old), Len(s)), old, new, n - 1)

\* strings.Replace(s, old, new, n), old being non-empty
Replace(s, old, new, n) ==
    IF old = new \/ n = 0 THEN s
    ELSE IF Count(s, old) = 0 THEN s
    ELSE ReplaceMatches(s, old, new, IF n < 0 \/ Count(s, old) < n THEN Count(s, old) ELSE n)

\* strings.ReplaceAll(s, old, new)
ReplaceAll(s, old, new) == Replace(s, old, new, -1)

\* EditPatchTool.Execute after os.WriteFile
EditWritten(written, filePath, edit, occurrences) ==
    IF written.err # "" THEN written
    ELSE [written EXCEPT !.result =
            EditResult(filePath, IF edit.all THEN occurrences ELSE 1, edit.all, occurrences)]

\* EditPatchTool.Execute after strings.Count: the file is written again
\* with the replacement made
EditCounted(fs, read, resolvedPath, filePath, edit, occurrences) ==
    IF occurrences = 0 THEN [read EXCEPT !.err = ErrOldStringNotFound]
    ELSE EditWritten(Wrapped("error writing file: ",
                             WriteFile(fs, resolvedPath,
                                       IF edit.all THEN ReplaceAll(read.data, edit.old, edit.new)
                                       ELSE Replace(read.data, edit.old, edit.new, 1))),
                     filePath, edit, occurrences)

\* EditPatchTool.Execute after os.ReadFile
EditRead(fs, read, resolvedPath, filePath, edit) ==
    IF read.err # "" THEN read
    ELSE EditCounted(fs, read, resolvedPath, filePath, edit, Count(read.data, edit.old))

\* EditPatchTool.Execute after EnsurePathAllowed
EditChecked(fs, policyErr, resolvedPath, filePath, edit) ==
    IF policyErr # "" THEN Refused(<<PathPolicyViolation, policyErr>>, fs)
    ELSE EditRead(fs, Wrapped("error reading file: ", ReadFile(fs, resolvedPath)), resolvedPath,
                  filePath, edit)

\* EditPatchTool.Execute after ResolvePath
EditResolved(fs, toolContext, resolvedPath, filePath, edit) ==
    EditChecked(fs, EnsurePathAllowed(fs, toolContext, resolvedPath), resolvedPath, filePath, edit)

\* EditPatchTool.Execute(ctx, arguments)
EditPatchExecute(fs, toolContext, filePath, edit) ==
    IF TrimSpace(filePath) = <<>> THEN Refused(ErrFilePathRequired, fs)
    ELSE IF edit.old = <<>> THEN Refused(ErrOldStringRequired, fs)
    ELSE EditResolved(fs, toolContext, ResolvePath(toolContext, TrimSpace(filePath)),
                      TrimSpace(filePath), edit)

\* ListDirTool.Execute after EnsurePathAllowed
ListChecked(fs, policyErr, resolvedPath) ==
    IF policyErr # "" THEN Refused(<<PathPolicyViolation, policyErr>>, fs)
    ELSE Wrapped("error reading directory: ", ReadDir(fs, resolvedPath))

\* ListDirTool.Execute after ResolvePath
ListResolved(fs, toolContext, resolvedPath) ==
    ListChecked(fs, EnsurePathAllowed(fs, toolContext, resolvedPath), resolvedPath)

\* ListDirTool.Execute(ctx, arguments): a blank path is "."
ListDirExecute(fs, toolContext, pathValue) ==
    ListResolved(fs, toolContext, ResolvePath(toolContext, OrDot(pathValue)))

(***************************************************************************)
(* Filesystems, paths and contexts the path policy is called with.         *)
(***************************************************************************)
\* the elements paths are written with
PathNames == {"w", "o", "a", "l", ".."}

\* the sequences of at most n elements
PartsUpTo(n) == UNION {[1..k -> PathNames] : k \in 0..n}

\* elements with a separator between each two
Separated(parts) ==
    [i \in 1..(2 * Len(parts) - 1) |-> IF i % 2 = 1 THEN parts[(i + 1) \div 2] ELSE Separator]

\* the text of a path
PathText(path) ==
    IF path.abs THEN <<Separator>> \o Separated(path.parts) ELSE Separated(path.parts)

\* the path texts handed to the policy and to the capabilities: every
\* path of at most MaxPathLen elements, rooted or not, a blank text, and
\* a text with spaces around it
CandidateTexts ==
    { PathText(Path(abs, parts)) : abs \in BOOLEAN, parts \in PartsUpTo(MaxPathLen) }
    \cup { <<" ">>, <<" ", Separator, "w", Separator, "a", " ">> }

\* what the symlink /w/l points to: a directory and a file outside the
\* root, a location and the root inside it, the same written relative to
\* the directory of the symlink, and the symlink itself
LinkTargets ==
    { Path(TRUE, <<"o">>), Path(TRUE, <<"o", "a">>), Path(TRUE, <<"w", "a">>), Path(TRUE, <<"w">>),
      Path(FALSE, <<"a">>), Path(FALSE, <<"..", "o">>), Path(TRUE, <<"w", "l">>) }

\* a filesystem with the directories /, /w and /o and the symlink /r to
\* /w; /w/a is missing, a directory or a file; /o/a is missing or a file;
\* /w/l is missing or a symlink to the one target of links
Layout(inside, outside, links) ==
    [at \in {<<>>, <<"w">>, <<"o">>, <<"r">>}
            \cup (IF inside # "none" THEN {<<"w", "a">>} ELSE {})
            \cup (IF outside # "none" THEN {<<"o", "a">>} ELSE {})
            \cup (IF links # {} THEN {<<"w", "l">>} ELSE {}) |->
        IF at = <<"r">> THEN LinkNode(Path(TRUE, <<"w">>))
        ELSE IF at = <<"w", "l">> THEN LinkNode(CHOOSE target \in links : TRUE)
        ELSE IF at = <<"w", "a">> /\ inside = "file" THEN FileNode(<<"in">>)
        ELSE IF at = <<"o", "a">> THEN FileNode(<<"secret">>)
        ELSE DirNode]

Layouts ==
    { Layout(inside, outside, links) :
        inside \in {"none", "dir", "file"}, outside \in {"none", "file"},
        links \in {{}} \cup {{target} : target \in LinkTargets} }

\* a filesystem nothing is done with
NoFiles == Layout("none", "none", {})

\* the contexts EnsurePathAllowed is called with directly: the root, a
\* symlink to the root, and a blank root
PolicyContexts ==
    { ToolContext(<<Separator, "w">>, root, 0, "nil", <<>>) :
        root \in {<<Separator, "w">>, <<" ", Separator, "r">>, <<" ">>} }

\* the contexts the capabilities are called with: the cwd rooted or ".",
\* the root or a symlink to it
CapabilityContexts ==
    { ToolContext(<<Separator, "w">>, <<Separator, "w">>, 0, "nil", <<>>),
      ToolContext(<<".">>, <<Separator, "w">>, 0, "nil", <<>>),
      ToolContext(<<Separator, "w">>, <<Separator, "r">>, 0, "nil", <<>>) }

\* the old_string, new_string and replace_all EditPatch is called with
Edits ==
    { [old |-> <<"in">>, new |-> <<"out">>, all |-> FALSE],
      [old |-> <<"in">>, new |-> <<"out">>, all |-> TRUE],
      [old |-> <<>>, new |-> <<"out">>, all |-> FALSE] }

\* the longest content of the file EditPatch is tried on
MaxContentLen == 4

\* the filesystem of the end-to-end test: the file /w/a with a content
WithContent(content) ==
    [Layout("file", "none", {}) EXCEPT ![<<"w", "a">>] = FileNode(content)]

\* the contents of the file: every text of "a" and "b" up to MaxContentLen
Contents == TextsUpTo({"a", "b"}, MaxContentLen)

\* the edits tried on it: old_string empty, one or two characters long,
\* new_string empty, shorter, longer, equal to or holding old_string
ContentEdits ==
    { [old |-> old, new |-> new, all |-> all] :
        old \in TextsUpTo({"a", "b"}, 2),
        new \in {<<>>, <<"a">>, <<"b">>, <<"a", "a">>, <<"c">>},
        all \in BOOLEAN }

(***************************************************************************)
(* The outbound network policy (EnsureOutboundURLAllowed).  An IP address  *)
(* is the sequence of its 4 or 16 bytes, and the empty sequence is nil.    *)
(***************************************************************************)
MaxAddrs == 2

NilIP == <<>>

IPv4(a, b, c, d) == <<a, b, c, d>>

\* a 16-byte address of which all but the first two bytes and the last are zero
IPv6(first, second, last) ==
    [i \in 1..16 |-> IF i = 1 THEN first ELSE IF i = 2 THEN second ELSE IF i = 16 THEN last ELSE 0]

\* the 16-byte form ::ffff:a.b.c.d of a 4-byte address
V4InV6(ip4) ==
    [i \in 1..16 |-> IF i <= 10 THEN 0 ELSE IF i <= 12 THEN 255 ELSE ip4[i - 12]]

\* x & mask, the mask keeping the bits from the given one upward
HighBits(x, bit) == (x \div bit) * bit

\* net.IP.To4: the 4-byte form of an IPv4 address, or nil
To4(ip) ==
    IF Len(ip) = 4 THEN ip
    ELSE IF Len(ip) = 16 /\ (\A i \in 1..10 : ip[i] = 0) /\ ip[11] = 255 /\ ip[12] = 255
    THEN SubSeq(ip, 13, 16)
    ELSE NilIP

\* net.IP.IsLoopback
IsLoopback(ip) ==
    IF To4(ip) # NilIP THEN To4(ip)[1] = 127 ELSE ip = IPv6(0, 0, 1)

\* net.IP.IsPrivate
IsPrivate(ip) ==
    IF To4(ip) # NilIP
    THEN \/ To4(ip)[1] = 10
         \/ To4(ip)[1] = 172 /\ HighBits(To4(ip)[2], 16) = 16
         \/ To4(ip)[1] = 192 /\ To4(ip)[2] = 168
    ELSE Len(ip) = 16 /\ HighBits(ip[1], 2) = 252

\* net.IP.IsLinkLocalUnicast
IsLinkLocalUnicast(ip) ==
    IF To4(ip) # NilIP THEN To4(ip)[1] = 169 /\ To4(ip)[2] = 254
    ELSE Len(ip) = 16 /\ ip[1] = 254 /\ HighBits(ip[2], 64) = 128

\* net.IP.IsLinkLocalMulticast
IsLinkLocalMulticast(ip) ==
    IF To4(ip) # NilIP THEN To4(ip)[1] = 224 /\ To4(ip)[2] = 0 /\ To4(ip)[3] = 0
    ELSE Len(ip) = 16 /\ ip[1] = 255 /\ ip[2] % 16 = 2

\* net.IP.IsMulticast
IsMulticast(ip) ==
    IF To4(ip) # NilIP THEN HighBits(To4(ip)[1], 16) = 224
    ELSE Len(ip) = 16 /\ ip[1] = 255

\* net.IP.IsUnspecified
IsUnspecified(ip) == To4(ip) = IPv4(0, 0, 0, 0) \/ ip = IPv6(0, 0, 0)

\* isPrivateOrLocalIP(ip)
isPrivateOrLocalIP(ip) ==
    \/ ip = NilIP
    \/ IsLoopback(ip) \/ IsPrivate(ip) \/ IsLinkLocalUnicast(ip)
    \/ IsLinkLocalMulticast(ip) \/ IsMulticast(ip) \/ IsUnspecified(ip)
    \/ To4(ip) # NilIP /\ To4(ip)[1] = 169 /\ To4(ip)[2] = 254
    \/ To4(ip) # NilIP /\ To4(ip)[1] = 100 /\ To4(ip)[2] >= 64 /\ To4(ip)[2] <= 127

\* strings.ToLower of the chunks texts are written with
ToLower(text) ==
    [i \in 1..Len(text) |->
        CASE text[i] = "HTTP" -> "http"
          [] text[i] = "Https" -> "https"
          [] text[i] = "LOCALHOST" -> "localhost"
          [] text[i] = "TRUE" -> "true"
          [] text[i] = "True" -> "true"
          [] OTHER -> text[i]]

\* a comparison that does not fold the letter case
isLocalHostname_CaseSensitive(hostname) ==
    \/ TrimSpace(hostname) = <<"localhost">>
    \/ /\ Len(TrimSpace(hostname)) >= 2
       /\ SubSeq(TrimSpace(hostname), Len(TrimSpace(hostname)) - 1, Len(TrimSpace(hostname)))
              = <<".", "localhost">>

\* isLocalHostname(hostname)
isLocalHostname(hostname) ==
    \/ ToLower(TrimSpace(hostname)) = <<"localhost">>
    \/ /\ Len(ToLower(TrimSpace(hostname))) >= 2
       /\ SubSeq(ToLower(TrimSpace(hostname)), Len(TrimSpace(hostname)) - 1, Len(TrimSpace(hostname)))
              = <<".", "localhost">>

\* the texts net.ParseIP reads as an address, with the address
IPLiterals ==
    [text \in {"127.0.0.1", "10.0.0.1", "8.8.8.8", "::1", "2001:db8::1"} |->
        CASE text = "127.0.0.1" -> V4InV6(IPv4(127, 0, 0, 1))
          [] text = "10.0.0.1" -> V4InV6(IPv4(10, 0, 0, 1))
          [] text = "8.8.8.8" -> V4InV6(IPv4(8, 8, 8, 8))
          [] text = "::1" -> IPv6(0, 0, 1)
          [] OTHER -> IPv6(32, 1, 1)]

\* net.ParseIP(hostname): nil for a text that is no address
ParseIP(hostname) ==
    IF Len(hostname) = 1 /\ hostname[1] \in DOMAIN IPLiterals THEN IPLiterals[hostname[1]]
    ELSE NilIP

\* the index of the first chunk of a text that is one of the given, or
\* one past the end
IndexOf(text, chunks) ==
    IF \E i \in 1..Len(text) : text[i] \in chunks
    THEN CHOOSE i \in 1..Len(text) : text[i] \in chunks /\ \A j \in 1..(i - 1) : text[j] \notin chunks
    ELSE Len(text) + 1

\* the authority of a URL text: what stands between "://" and the next "/"
Authority(text) ==
    SubSeq(text, IndexOf(text, {"://"}) + 1,
           IndexOf(text, {"://"}) + IndexOf(SubSeq(text, IndexOf(text, {"://"}) + 1, Len(text)), {"/"}) - 1)

\* url.Parse(rawURL): the scheme is what stands before "://"; a text with
\* a bad escape is an error
ParseURL(text) ==
    IF \E i \in 1..Len(text) : text[i] = "%zz"
    THEN [err |-> "invalid URL", Scheme |-> <<>>, Host |-> <<>>]
    ELSE IF IndexOf(text, {"://"}) > Len(text)
    THEN [err |-> "", Scheme |-> <<>>, Host |-> <<>>]
    ELSE [err |-> "", Scheme |-> SubSeq(text, 1, IndexOf(text, {"://"}) - 1), Host |-> Authority(text)]

\* URL.Hostname(): the host without its port and without the brackets of
\* an IPv6 literal
Hostname(parsedURL) ==
    IF parsedURL.Host # <<>> /\ parsedURL.Host[1] = "["
    THEN SubSeq(parsedURL.Host, 2, IndexOf(parsedURL.Host, {"]"}) - 1)
    ELSE SubSeq(parsedURL.Host, 1, IndexOf(parsedURL.Host, {":"}) - 1)

\* what resolveIPAddrs returns: an error, "" for none, and the addresses
Resolved(err, addrs) == [err |-> err, addrs |-> addrs]

\* a loop that looks at the first resolved address only
BlockedAddress_FirstOnly(ipAddrs) == isPrivateOrLocalIP(ipAddrs[1])

\* the loop over ipAddrs: some address is private or local
BlockedAddress(ipAddrs) == \E i \in 1..Len(ipAddrs) : isPrivateOrLocalIP(ipAddrs[i])

\* the value of a call: its error, "" for nil, and the hostnames the
\* resolver has been asked for
Checked(err, lookups) == [err |-> err, lookups |-> lookups]

\* EnsureOutboundURLAllowed once resolveIPAddrs has returned
CheckResolved(hostname, resolved) ==
    IF resolved.err # "" THEN Checked("failed resolving host", <<hostname>>)
    ELSE IF Len(resolved.addrs) = 0 THEN Checked("failed resolving host: no addresses", <<hostname>>)
    ELSE IF BlockedAddress(resolved.addrs) THEN Checked("blocked outbound host", <<hostname>>)
    ELSE Checked("", <<hostname>>)

\* EnsureOutboundURLAllowed once it has the hostname
CheckHostname(hostname, ip, resolved) ==
    IF hostname = <<>> THEN Checked("invalid URL host", <<>>)
    ELSE IF isLocalHostname(hostname) THEN Checked("blocked outbound host", <<>>)
    ELSE IF ip # NilIP
    THEN IF isPrivateOrLocalIP(ip) THEN Checked("blocked outbound IP", <<>>) ELSE Checked("", <<>>)
    ELSE CheckResolved(hostname, resolved)

\* EnsureOutboundURLAllowed once it has parsed the URL
CheckURL(parsedURL, resolved) ==
    IF parsedURL.err # "" THEN Checked("invalid URL", <<>>)
    ELSE IF ToLower(TrimSpace(parsedURL.Scheme)) \notin {<<"http">>, <<"https">>}
    THEN Checked("unsupported URL scheme", <<>>)
    ELSE CheckHostname(TrimSpace(Hostname(parsedURL)), ParseIP(TrimSpace(Hostname(parsedURL))), resolved)

\* a test for the variable being set to anything
OverrideSet_AnyValue(value) == value # <<>>

\* strings.EqualFold(strings.TrimSpace(os.Getenv(allowPrivateEgressEnv)), "true")
OverrideSet(value) == ToLower(TrimSpace(value)) = <<"true">>

\* EnsureOutboundURLAllowed(ctx, rawURL), the environment variable having
\* the given value and resolved being what resolveIPAddrs returns if called
EnsureOutboundURLAllowed(override, rawURL, resolved) ==
    IF OverrideSet(override) THEN Checked("", <<>>)
    ELSE CheckURL(ParseURL(TrimSpace(rawURL)), resolved)

\* the values of SHIMIBOT_ALLOW_PRIVATE_EGRESS: unset or empty, something
\* else, and "true" in several writings
Overrides == { <<>>, <<"yes">>, <<"true">>, <<"True">>, <<" ", "TRUE", " ">> }

\* the URLs the policy is called with
URLs ==
    { <<"https", "://", "example", ".", "com", "/">>,
      <<" ", "HTTP", "://", "example", ".", "com", ":", "80", " ">>,
      <<"http", "://", "notlocalhost">>,
      <<"ftp", "://", "example", ".", "com">>,
      <<"example", ".", "com">>,
      <<"http", "://", "/">>,
      <<"http", "://", "LOCALHOST">>,
      <<"http", "://", "a", ".", "localhost", "/">>,
      <<"http", "://", "127.0.0.1", "/">>,
      <<"http", "://", "10.0.0.1", "/">>,
      <<"ftp", "://", "LOCALHOST">>,
      <<"file", "://", "/", "etc">>,
      <<"http", "://", "8.8.8.8">>,
      <<"http", "://", "[", "::1", "]", ":", "80">>,
      <<"http", "://", "[", "2001:db8::1", "]">>,
      <<"http", "://", "%zz">> }

\* the addresses a resolver returns: the first and the last address of
\* every range the policy knows, the addresses next to them, public
\* addresses, and nil
Addresses ==
    { IPv4(0, 0, 0, 0), IPv4(0, 0, 0, 1), IPv4(8, 8, 8, 8),
      IPv4(9, 255, 255, 255), IPv4(10, 0, 0, 0), IPv4(10, 255, 255, 255), IPv4(11, 0, 0, 0),
      IPv4(100, 63, 255, 255), IPv4(100, 64, 0, 0), IPv4(100, 127, 255, 255), IPv4(100, 128, 0, 0),
      IPv4(126, 255, 255, 255), IPv4(127, 0, 0, 1), IPv4(127, 255, 255, 255), IPv4(128, 0, 0, 0),
      IPv4(169, 253, 255, 255), IPv4(169, 254, 0, 0), IPv4(169, 254, 255, 255), IPv4(169, 255, 0, 0),
      IPv4(172, 15, 255, 255), IPv4(172, 16, 0, 0), IPv4(172, 31, 255, 255), IPv4(172, 32, 0, 0),
      IPv4(192, 167, 255, 255), IPv4(192, 168, 0, 0), IPv4(192, 168, 255, 255), IPv4(192, 169, 0, 0),
      IPv4(223, 255, 255, 255), IPv4(224, 0, 0, 1), IPv4(239, 255, 255, 255), IPv4(240, 0, 0, 0),
      V4InV6(IPv4(127, 0, 0, 1)), V4InV6(IPv4(100, 64, 0, 1)), V4InV6(IPv4(8, 8, 8, 8)),
      IPv6(0, 0, 0), IPv6(0, 0, 1), IPv6(32, 1, 1),
      IPv6(254, 128, 1), IPv6(254, 191, 1), IPv6(254, 192, 1),
      IPv6(255, 2, 1), IPv6(255, 14, 1),
      NilIP }

\* what resolveIPAddrs can return: an error, or at most MaxAddrs addresses
ResolverOutcomes ==
    { Resolved("no such host", <<>>) }
    \cup { Resolved("", addrs) : addrs \in UNION {[1..n -> Addresses] : n \in 0..MaxAddrs} }

(***************************************************************************)
(* The web capabilities (FetchWebPage, WebSearchOllama).  Each checks its  *)
(* URL with EnsureOutboundURLAllowed and then hands it to an http.Client   *)
(* with no Transport and no CheckRedirect of its own: the client resolves  *)
(* the host again when it dials, and follows the redirects it is given.    *)
(***************************************************************************)
MaxRedirects == 1

\* what Execute is called with: whether json.Unmarshal accepts the
\* arguments, and the url, the query or the command they hold
ToolArguments(parsed, text) == [parsed |-> parsed, text |-> text]

\* where Execute is once the policy has been asked, or what it returned
\* before: an error, "" for none, and the URL of the request
Begun(err, url, checked) == [err |-> err, url |-> url, checked |-> checked]

\* FetchWebPageTool.Execute up to http.NewRequest
FetchWebPageBegin(override, arguments, resolved) ==
    IF ~arguments.parsed THEN Begun("error parsing arguments", <<>>, <<>>)
    ELSE IF TrimSpace(arguments.text) = <<>> THEN Begun("url must be a non-empty string", <<>>, <<>>)
    ELSE IF EnsureOutboundURLAllowed(override, TrimSpace(arguments.text), resolved).err # ""
    THEN Begun("outbound URL blocked",
               <<>>, EnsureOutboundURLAllowed(override, TrimSpace(arguments.text), resolved).lookups)
    ELSE Begun("", TrimSpace(arguments.text),
               EnsureOutboundURLAllowed(override, TrimSpace(arguments.text), resolved).lookups)

\* WebSearchOllamaTool.Execute up to http.NewRequest, searchURL being the
\* value of OLLAMA_WEB_SEARCH_URL
WebSearchOllamaBegin(override, arguments, searchURL, resolved) ==
    IF ~arguments.parsed THEN Begun("error parsing arguments", <<>>, <<>>)
    ELSE IF TrimSpace(arguments.text) = <<>> THEN Begun("query must be a non-empty string", <<>>, <<>>)
    ELSE IF TrimSpace(searchURL) = <<>> THEN Begun("set OLLAMA_WEB_SEARCH_URL", <<>>, <<>>)
    ELSE IF EnsureOutboundURLAllowed(override, TrimSpace(searchURL), resolved).err # ""
    THEN Begun("outbound URL blocked",
               <<>>, EnsureOutboundURLAllowed(override, TrimSpace(searchURL), resolved).lookups)
    ELSE Begun("", TrimSpace(searchURL),
               EnsureOutboundURLAllowed(override, TrimSpace(searchURL), resolved).lookups)

\* the error Execute returns when client.Do fails
RequestFailed(tool) ==
    IF tool = "FetchWebPage" THEN "error fetching webpage" ELSE "error calling web search endpoint"

\* the error Execute returns for a status outside 200..299
StatusFailed(tool) ==
    IF tool = "FetchWebPage" THEN "webpage request failed with status"
    ELSE "web search request failed with status"

\* the host the client dials for a URL
DialHost(url) == TrimSpace(Hostname(ParseURL(url)))

\* the URLs a web capability is given, and the empty one
WebURLs ==
    { <<"https", "://", "example", ".", "com", "/">>,
      <<"http", "://", "8.8.8.8">>,
      <<"http", "://", "127.0.0.1", "/">>,
      <<"http", "://", "LOCALHOST">>,
      <<"ftp", "://", "example", ".", "com">>,
      <<" ">> }

\* the URLs a server names in the Location of a redirect
RedirectTargets ==
    { <<"https", "://", "example", ".", "com", "/">>,
      <<"http", "://", "127.0.0.1", "/">>,
      <<"http", "://", "LOCALHOST">> }

\* the addresses a name resolves to: a public one, the loopback and the
\* link-local address of a metadata service
WebAddresses == { IPv4(8, 8, 8, 8), IPv4(127, 0, 0, 1), IPv4(169, 254, 169, 254) }

\* what a resolver can return for a name, when the policy asks and when
\* the client dials
WebResolverOutcomes ==
    { Resolved("no such host", <<>>) }
    \cup { Resolved("", addrs) : addrs \in UNION {[1..n -> WebAddresses] : n \in 1..MaxAddrs} }

\* the arguments of a call
WebArgumentSets == { ToolArguments(FALSE, <<>>), ToolArguments(TRUE, <<>>), ToolArguments(TRUE, <<"q">>) }

(***************************************************************************)
(* The Bash capability and its command policy.  A command and a pattern    *)
(* are texts; a pattern of the configured lists is read as the text it is  *)
(* written with, with "^" for the beginning of the command, and a pattern  *)
(* with an unclosed "(" does not compile.                                  *)
(***************************************************************************)
\* the letters of a command in lower case, for the patterns written
\* with (?i)
FoldCommand(command) ==
    [i \in 1..Len(command) |->
        CASE command[i] = "RM" -> "rm"
          [] command[i] = "Shutdown" -> "shutdown"
          [] OTHER -> command[i]]

\* text holds part at some position
Contains(text, part) ==
    \E i \in 0..(Len(text) - Len(part)) : SubSeq(text, i + 1, i + Len(part)) = part

\* blockedCommandPatterns, each as the texts it matches
blockedCommandPatterns ==
    << {<<"rm", " ", "-rf", " ", "/">>},
       {<<"shutdown">>},
       {<<"reboot">>},
       {<<"poweroff">>},
       {<<"mkfs", ".">>, <<"mkfs", " ">>},
       {<<":(){ :|:& };:">>} >>

\* pattern.MatchString(command) for a pattern of blockedCommandPatterns;
\* all but the last are written with (?i)
BlockedMatch(index, command) ==
    \E part \in blockedCommandPatterns[index] :
        Contains(IF index < 6 THEN FoldCommand(command) ELSE command, part)

\* regexp.Compile(part): whether it returns an error
CompileFails(part) == \E i \in 1..Len(part) : part[i] = "("

\* pattern.MatchString(command) for a compiled pattern of a list
MatchString(pattern, command) ==
    IF pattern[1] = "^"
    THEN Len(pattern) - 1 <= Len(command) /\ SubSeq(command, 1, Len(pattern) - 1) = Tail(pattern)
    ELSE Contains(command, pattern)

PolicySeparators == {",", ";", "\n"}

\* strings.FieldsFunc(raw, ...): the runs of raw between the separators,
\* the empty ones left out
RECURSIVE FieldsFunc(_, _, _)
FieldsFunc(raw, field, fields) ==
    IF raw = <<>> THEN (IF field = <<>> THEN fields ELSE Append(fields, field))
    ELSE IF Head(raw) \in PolicySeparators
    THEN FieldsFunc(Tail(raw), <<>>, IF field = <<>> THEN fields ELSE Append(fields, field))
    ELSE FieldsFunc(Tail(raw), Append(field, Head(raw)), fields)

\* the second loop of splitPolicyList: the segments trimmed, the empty
\* ones left out
RECURSIVE TrimmedValues(_)
TrimmedValues(segments) ==
    IF segments = <<>> THEN <<>>
    ELSE IF TrimSpace(Head(segments)) = <<>> THEN TrimmedValues(Tail(segments))
    ELSE <<TrimSpace(Head(segments))>> \o TrimmedValues(Tail(segments))

\* splitPolicyList(raw)
splitPolicyList(raw) == TrimmedValues(FieldsFunc(raw, <<>>, <<>>))

\* what compilePolicyPatterns returns: an error, "" for nil, and the
\* compiled patterns
Compiled(err, patterns) == [err |-> err, patterns |-> patterns]

\* regexp.Compile(part) returns a pattern
Compiles(part) == ~CompileFails(part)

\* a loop that leaves out the parts that do not compile
CompileParts_SkipsInvalid(parts) == Compiled("", SelectSeq(parts, Compiles))

\* the loop of compilePolicyPatterns over the parts
CompileParts(parts) ==
    IF \E i \in 1..Len(parts) : CompileFails(parts[i])
    THEN Compiled("invalid regex", <<>>)
    ELSE Compiled("", parts)

\* compilePolicyPatterns(raw)
compilePolicyPatterns(raw) ==
    IF TrimSpace(raw) = <<>> THEN Compiled("", <<>>)
    ELSE CompileParts(splitPolicyList(TrimSpace(raw)))

\* some pattern of the sequence matches the command
AnyMatch(patterns, command) == \E i \in 1..Len(patterns) : MatchString(patterns[i], command)

\* validateCommandPolicy from the allowlist on
AllowlistPolicy(allowlistPatterns, command) ==
    IF allowlistPatterns.err # "" THEN "invalid SHIMIBOT_BASH_ALLOWLIST"
    ELSE IF Len(allowlistPatterns.patterns) > 0 /\ ~AnyMatch(allowlistPatterns.patterns, command)
    THEN "command blocked by allowlist policy"
    ELSE ""

\* validateCommandPolicy from the denylist on
DenylistPolicy(denylistPatterns, allowlist, command) ==
    IF denylistPatterns.err # "" THEN "invalid SHIMIBOT_BASH_DENYLIST"
    ELSE IF AnyMatch(denylistPatterns.patterns, command) THEN "command blocked by denylist policy"
    ELSE AllowlistPolicy(compilePolicyPatterns(allowlist), command)

\* a policy that asks the allowlist first and lets what it names pass
validateCommandPolicy_AllowlistFirst(denylist, allowlist, command) ==
    IF \E index \in 1..Len(blockedCommandPatterns) : BlockedMatch(index, command)
    THEN "command blocked by policy"
    ELSE IF compilePolicyPatterns(allowlist).err = ""
            /\ AnyMatch(compilePolicyPatterns(allowlist).patterns, command)
    THEN ""
    ELSE DenylistPolicy(compilePolicyPatterns(denylist), allowlist, command)

\* validateCommandPolicy(command), the two environment variables having
\* the given values; "" is nil
validateCommandPolicy(denylist, allowlist, command) ==
    IF \E index \in 1..Len(blockedCommandPatterns) : BlockedMatch(index, command)
    THEN "command blocked by policy"
    ELSE DenylistPolicy(compilePolicyPatterns(denylist), allowlist, command)

\* what BashTool.Execute returns and whether it has started the command
Ran(err, started) == [err |-> err, started |-> started]

\* BashTool.Execute once the policy has answered; outcome is how the
\* command ends if it is started
BashChecked(policyErr, command, outcome) ==
    IF policyErr # "" THEN Ran(policyErr, <<>>)
    ELSE IF outcome = "timeout" THEN Ran("bash command timed out", <<command>>)
    ELSE IF outcome = "failed" THEN Ran("error executing bash command", <<command>>)
    ELSE Ran("", <<command>>)

\* BashTool.Execute(ctx, arguments)
BashExecute(denylist, allowlist, arguments, outcome) ==
    IF ~arguments.parsed THEN Ran("error parsing arguments", <<>>)
    ELSE IF TrimSpace(arguments.text) = <<>> THEN Ran("command must be a non-empty string", <<>>)
    ELSE BashChecked(validateCommandPolicy(denylist, allowlist, TrimSpace(arguments.text)),
                     TrimSpace(arguments.text), outcome)

\* the commands Bash is called with
Commands ==
    { <<"ls">>, <<" ", "git", " ", "status", " ">>, <<"echo", " ", "git">>,
      <<"RM", " ", "-rf", " ", "/">>, <<"rm", " ", "x">>, <<"Shutdown">>, <<"mkfs", ".", "ext4">>,
      <<":(){ :|:& };:">>, <<" ">> }

\* the values of SHIMIBOT_BASH_DENYLIST
Denylists ==
    { <<>>, <<"rm">>, <<"git", ",", "curl">>, <<" ", ";", "\n">>, <<"curl", ";", "(">> }

\* the values of SHIMIBOT_BASH_ALLOWLIST: not set, patterns with the
\* three separators, separators and blanks alone, and a pattern that
\* does not compile
Allowlists ==
    { <<>>, <<"ls">>, <<"^", "git", ";", " ", "ls", " ", "\n", "rm">>, <<",", "^", "git">>,
      <<",">>, <<" ">>, <<";", " ", "\n">>, <<"ls", ",", "(", "x">> }

\* how a command that is started ends
RunOutcomes == {"ok", "failed", "timeout"}

\* capabilities a Registry is built from; two of them share a name
ReadTool == Tool(<<"R">>, "read")
BashTool == Tool(<<"B">>, "bash")
ReadLinkTool == Tool(<<"R", "e">>, "readlink")
AwkTool == Tool(<<"a">>, "awk")
OtherReadTool == Tool(<<"R">>, "read again")

\* the ToolContext main builds: the working directory as cwd and as
\* allowed root, no context yet
MainToolContext == ToolContext(<<"/", "w">>, <<"/", "w">>, 0, "nil", <<>>)

\* what a capability may return: a result with a nil error, or an error
ToolOutcomes ==
    { ToolOutcome(StringValue(<<"o", "k">>), <<>>),
      ToolOutcome(StringValue(<<>>), <<>>),
      ToolOutcome(NilValue, <<>>),
      ToolOutcome(UnencodableValue, <<>>),
      ToolOutcome(NilValue, <<"boom">>) }

\* The environment of a run: how many prompts the caller sends, what the
\* provider may answer and what executes the tool calls: a stub that
\* answers a fixed text, as the executors of the Runner's tests do, or
\* DispatchToolCall on a Registry, as main wires it.
\* one prompt, a provider that answers anything
PromptEnv ==
    [maxPrompts |-> 1, providerCalls |-> MaxProviderCalls, policies |-> PolicyChoices, pool |-> ToolCallPool,
     blankContent |-> TRUE, toolResponses |-> {<<"o", "k">>},
     executor |-> "stub", registries |-> {NewRegistry(<<ReadTool>>)},
     toolContext |-> MainToolContext, toolOutcomes |-> {}, histories |-> InitialHistories,
     fileSystems |-> {NoFiles}, inputs |-> {NoInput}]

\* one prompt, a provider that is called once more than elsewhere and
\* answers with a well-formed tool call, a blank one, both or none
TerminationEnv ==
    [PromptEnv EXCEPT
        !.providerCalls = MaxProviderCalls + 1,
        !.pool = {ToolCall(<<"1">>, <<"R">>, <<"{", "}">>), ToolCall(<<" ">>, <<"R">>, <<"{", "}">>)},
        !.blankContent = FALSE,
        !.histories = {<<Message(RoleSystem, <<"s">>, <<>>, <<>>)>>}]

\* a session of several prompts on the same history, with a Runner that
\* has both budgets set and a provider that answers well-formed tool calls
SessionEnv ==
    [maxPrompts |-> MaxPrompts, providerCalls |-> MaxProviderCalls,
     policies |-> {p \in PolicyChoices : p.MaxTurns > 0 /\ p.MaxToolCalls > 0},
     pool |-> {ToolCall(<<"1">>, <<"R">>, <<"{", "}">>)},
     blankContent |-> FALSE, toolResponses |-> {<<"o", "k">>},
     executor |-> "stub", registries |-> {NewRegistry(<<ReadTool>>)},
     toolContext |-> MainToolContext, toolOutcomes |-> {}, histories |-> InitialHistories,
     fileSystems |-> {NoFiles}, inputs |-> {NoInput}]

\* the tool lists a Registry is built from: three tools in two orders,
\* and three tools of which two share a name, in two orders
ToolLists ==
    { <<ReadTool, AwkTool, BashTool>>, <<AwkTool, BashTool, ReadTool>>,
      <<ReadTool, BashTool, OtherReadTool>>, <<OtherReadTool, BashTool, ReadTool>> }

\* one prompt of a Runner, without budgets or with a turn limit, whose tool calls go through
\* DispatchToolCall to a Registry that knows "R", "B" and "a" but not "W",
\* or to no Registry
DispatchEnv ==
    [maxPrompts |-> 1, providerCalls |-> MaxProviderCalls,
     policies |-> {[MaxTurns |-> 0, MaxToolCalls |-> 0], [MaxTurns |-> 1, MaxToolCalls |-> 0]},
     pool |-> {ToolCall(<<"1">>, <<"R">>, <<"{", "}">>), ToolCall(<<"2">>, <<"W">>, <<"{", "}">>)},
     blankContent |-> FALSE, toolResponses |-> {},
     executor |-> "dispatch",
     registries |-> {NewRegistry(toolList) : toolList \in ToolLists} \cup {NilRegistry},
     toolContext |-> MainToolContext,
     toolOutcomes |-> {ToolOutcome(StringValue(<<"o", "k">>), <<>>)},
     histories |-> {<<Message(RoleSystem, <<"s">>, <<>>, <<>>)>>},
     fileSystems |-> {NoFiles}, inputs |-> {NoInput}]

\* one prompt of a Runner whose tool calls go through DispatchToolCall to
\* a Registry that knows "R"; the provider names "R" with arguments that
\* cannot be repaired (id "1") and with arguments that are JSON (id "2")
RawArgumentsEnv ==
    [maxPrompts |-> 1, providerCalls |-> MaxProviderCalls,
     policies |-> {[MaxTurns |-> 0, MaxToolCalls |-> 0], [MaxTurns |-> 1, MaxToolCalls |-> 0]},
     pool |-> {ToolCall(<<"1">>, <<"R">>, <<"{">>), ToolCall(<<"2">>, <<"R">>, <<"{", "}">>)},
     blankContent |-> FALSE, toolResponses |-> {},
     executor |-> "dispatch",
     registries |-> {NewRegistry(<<ReadTool>>)},
     toolContext |-> MainToolContext,
     toolOutcomes |-> {ToolOutcome(StringValue(<<"o", "k">>), <<>>), ToolOutcome(NilValue, <<"boom">>)},
     histories |-> {<<Message(RoleSystem, <<"s">>, <<>>, <<>>)>>},
     fileSystems |-> {NoFiles}, inputs |-> {NoInput}]

\* one prompt of a Runner whose tool calls go through DispatchToolCall to
\* a Registry that knows "R" but not "W", the capability succeeding or
\* failing with an error
FailingToolsEnv ==
    [RawArgumentsEnv EXCEPT
        !.pool = {ToolCall(<<"1">>, <<"R">>, <<"{", "}">>), ToolCall(<<"2">>, <<"W">>, <<"{", "}">>)},
        !.toolOutcomes = {ToolOutcome(StringValue(<<"o", "k">>), <<>>),
                          ToolOutcome(NilValue, <<"path policy violation: ", "path is outside allowed root">>)}]

\* no prompt: direct calls of Registry.Execute, DispatchToolCall and
\* Registry.Definitions, as the tests of package tools make them
RegistryEnv ==
    [maxPrompts |-> 0, providerCalls |-> MaxProviderCalls, policies |-> {[MaxTurns |-> 0, MaxToolCalls |-> 0]}, pool |-> {},
     blankContent |-> FALSE, toolResponses |-> {}, executor |-> "dispatch",
     registries |-> { NilRegistry,
                      NewRegistry(<<>>),
                      NewRegistry(<<ReadTool, AwkTool, BashTool, ReadLinkTool>>),
                      NewRegistry(<<ReadLinkTool, BashTool, AwkTool, ReadTool>>),
                      NewRegistry(<<ReadTool, BashTool, OtherReadTool>>) },
     toolContext |-> MainToolContext, toolOutcomes |-> ToolOutcomes,
     histories |-> {<<Message(RoleSystem, <<"s">>, <<>>, <<>>)>>},
     fileSystems |-> {NoFiles}, inputs |-> {NoInput}]

\* no prompt: one call of EnsurePathAllowed or of a file capability on a
\* filesystem set up for it, as the tests of package tools make them
PathEnv ==
    [maxPrompts |-> 0, providerCalls |-> MaxProviderCalls, policies |-> {[MaxTurns |-> 0, MaxToolCalls |-> 0]}, pool |-> {},
     blankContent |-> FALSE, toolResponses |-> {}, executor |-> "dispatch",
     registries |-> {NilRegistry},
     toolContext |-> MainToolContext, toolOutcomes |-> {},
     histories |-> {<<Message(RoleSystem, <<"s">>, <<>>, <<>>)>>},
     fileSystems |-> Layouts, inputs |-> {NoInput}]

\* no prompt: a file capability is executed on /w/a, a file or a
\* directory, while another process can put a symlink in its place; /o
\* and the file /o/a, when there is one, are outside the root
InterleavedEnv ==
    [PathEnv EXCEPT !.fileSystems =
        {Layout(inside, outside, {}) : inside \in {"file", "dir"}, outside \in {"none", "file"}}]

\* no prompt: EditPatch executed once on the file /w/a
EditEnv == [PathEnv EXCEPT !.fileSystems = {WithContent(content) : content \in Contents}]

\* no prompt: one call of EnsureOutboundURLAllowed with a resolver put in
\* place of resolveIPAddrs, as the tests of package tools make them
EgressEnv ==
    [maxPrompts |-> 0, providerCalls |-> MaxProviderCalls, policies |-> {[MaxTurns |-> 0, MaxToolCalls |-> 0]}, pool |-> {},
     blankContent |-> FALSE, toolResponses |-> {}, executor |-> "dispatch",
     registries |-> {NilRegistry},
     toolContext |-> MainToolContext, toolOutcomes |-> {},
     histories |-> {<<Message(RoleSystem, <<"s">>, <<>>, <<>>)>>},
     fileSystems |-> {NoFiles}, inputs |-> {NoInput},
     allowPrivateEgress |-> <<>>]

\* the tool calls handed to the Registry directly: a registered and an
\* unregistered name, arguments that are JSON, that wrap JSON and that
\* cannot be repaired
RegistryCalls ==
    { ToolCall(<<"1">>, <<"R">>, a) : a \in {<<"{", "}">>, <<"x", "{", "}">>, <<"{">>} }
    \cup {ToolCall(<<"2">>, <<"W">>, <<"{", "}">>), ToolCall(<<"2">>, <<"W">>, <<"{">>)}

\* the tool contexts handed to the Registry directly: cwd and allowed_root
\* empty, whitespace-only or set, without a context; a valid one in
\* every state of its context; and one without cwd or without
\* allowed_root whose context is done
ToolContexts ==
    { ToolContext(cwd, root, 0, "nil", <<>>) :
        cwd \in {<<>>, <<" ">>, <<"/", "w">>}, root \in {<<>>, <<" ">>, <<"/", "w">>} }
    \cup { ToolContext(<<"/", "w">>, <<"/", "w">>, 5, c, <<"c">>) : c \in ContextStates }
    \cup { ToolContext(<<" ">>, <<"/", "w">>, 0, c, <<>>) : c \in {"canceled", "deadline"} }
    \cup { ToolContext(<<"/", "w">>, <<>>, 0, "canceled", <<>>) }

\* NormalizeJSONArguments over the argument texts of the tool calls above,
\* evaluated once per text
NormalizedArguments ==
    [raw \in {toolCall.Arguments : toolCall \in PromptEnv.pool \cup SessionEnv.pool \cup DispatchEnv.pool
                                      \cup RawArgumentsEnv.pool
                                      \cup RegistryCalls} |->
        NormalizeJSONArguments(raw)]

\* the meta map Registry.Execute builds before it checks anything
ExecuteMeta(tool, toolContext) ==
    LET keys == {"tool"}
                \cup (IF ~IsBlank(toolContext.CWD) THEN {"cwd"} ELSE {})
                \cup (IF ~IsBlank(toolContext.CorrelationID) THEN {"correlation_id"} ELSE {})
                \cup (IF ~IsBlank(toolContext.AllowedRoot) THEN {"allowed_root"} ELSE {})
                \cup (IF toolContext.Timeout > 0 THEN {"timeout_ms"} ELSE {})
    IN [k \in keys |->
            CASE k = "tool" -> tool.name
              [] k = "cwd" -> toolContext.CWD
              [] k = "correlation_id" -> toolContext.CorrelationID
              [] k = "allowed_root" -> toolContext.AllowedRoot
              [] k = "timeout_ms" -> <<toolContext.Timeout>>]

\* a Registry.Execute that hands the call to the capability without
\* looking at cwd and allowed_root
InvalidToolContext_Never(toolContext) == FALSE

\* strings.TrimSpace(toolContext.CWD) == "" || strings.TrimSpace(toolContext.AllowedRoot) == ""
InvalidToolContext(toolContext) == IsBlank(toolContext.CWD) \/ IsBlank(toolContext.AllowedRoot)

\* a Registry.Execute that never asks the context for its error
ContextDone_Never(toolContext) == FALSE

\* toolContext.Context != nil && toolContext.Context.Err() != nil
ContextDone(toolContext) == toolContext.Context # "nil" /\ ContextErr(toolContext) # "nil"

\* tool, ok := registry.tools[toolCall.Name]
Registered(registry, name) == name \in DOMAIN registry.tools

\* the end of Registry.Execute: the normalised arguments are refused, or
\* handed to tool.Execute, whose result or error becomes the envelope
Invoke(tool, args, outcome, meta) ==
    IF ~args.valid
    THEN [output |-> ErrorEnvelope(tool.name \o <<": invalid JSON arguments">>, meta),
          matched |-> TRUE, invoked |-> <<>>]
    ELSE [output |->
              IF outcome.err # <<>>
              THEN ErrorEnvelope(tool.name \o <<": ">> \o outcome.err, meta)
              ELSE SuccessEnvelope(outcome.result, meta),
          matched |-> TRUE,
          invoked |-> <<[tool |-> tool.name, arguments |-> args.text]>>]

\* a Registry.Execute that asks the context for its error before it looks
\* at cwd and allowed_root
Execute_CancellationFirst(registry, toolCall, toolContext, outcome) ==
    IF ~Registered(registry, toolCall.Name)
    THEN [output |-> <<>>, matched |-> FALSE, invoked |-> <<>>]
    ELSE LET tool == registry.tools[toolCall.Name]
             meta == ExecuteMeta(tool, toolContext)
         IN IF ContextDone(toolContext)
            THEN [output |->
                      IF ContextErr(toolContext) = "context canceled"
                      THEN ErrorEnvelope(<<"tool execution cancelled">>, meta)
                      ELSE ErrorEnvelope(<<"tool execution context error: ", ContextErr(toolContext)>>, meta),
                  matched |-> TRUE, invoked |-> <<>>]
            ELSE IF InvalidToolContext(toolContext)
            THEN [output |-> ErrorEnvelope(<<"invalid tool context: cwd and allowed_root are required">>, meta),
                  matched |-> TRUE, invoked |-> <<>>]
            ELSE Invoke(tool, NormalizedArguments[toolCall.Arguments], outcome, meta)

\* Registry.Execute(toolCall, toolContext); outcome is what the capability
\* returns if its Execute is invoked.  The value is (output, matched) and
\* the invocations of capabilities the call has made
Execute(registry, toolCall, toolContext, outcome) ==
    IF ~Registered(registry, toolCall.Name)
    THEN [output |-> <<>>, matched |-> FALSE, invoked |-> <<>>]
    ELSE LET tool == registry.tools[toolCall.Name]
             meta == ExecuteMeta(tool, toolContext)
         IN IF InvalidToolContext(toolContext)
            THEN [output |-> ErrorEnvelope(<<"invalid tool context: cwd and allowed_root are required">>, meta),
                  matched |-> TRUE, invoked |-> <<>>]
            ELSE IF ContextDone(toolContext)
            THEN [output |->
                      IF ContextErr(toolContext) = "context canceled"
                      THEN ErrorEnvelope(<<"tool execution cancelled">>, meta)
                      ELSE ErrorEnvelope(<<"tool execution context error: ", ContextErr(toolContext)>>, meta),
                  matched |-> TRUE, invoked |-> <<>>]
            ELSE Invoke(tool, NormalizedArguments[toolCall.Arguments], outcome, meta)

\* an "unknown tool" envelope without meta
UnknownToolEnvelope_NoMeta(toolName) ==
    ErrorEnvelope(<<"unknown tool '">> \o toolName \o <<"'">>, EmptyMeta)

\* tools.ErrorEnvelope(fmt.Sprintf("unknown tool '%s'", toolName), map[string]any{"tool": toolName})
UnknownToolEnvelope(toolName) ==
    ErrorEnvelope(<<"unknown tool '">> \o toolName \o <<"'">>, [k \in {"tool"} |-> toolName])

\* what DispatchToolCall makes of what Execute returned
Dispatched(executed_, toolCall) ==
    IF executed_.matched
    THEN [output |-> executed_.output, invoked |-> executed_.invoked]
    ELSE [output |-> UnknownToolEnvelope(toolCall.Name), invoked |-> executed_.invoked]

\* appcore.DispatchToolCall(logger, toolRegistry, toolContext, toolCall)
DispatchToolCall(registry, toolContext, toolCall, outcome) ==
    IF registry.isNil
    THEN [output |-> UnknownToolEnvelope(toolCall.Name), invoked |-> <<>>]
    ELSE Dispatched(Execute(registry, toolCall, toolContext, outcome), toolCall)

(***************************************************************************)
(* State.                                                                  *)
(***************************************************************************)
VARIABLES
    env,                \* the environment of the run
    runner,             \* the Runner value: Policy, LLMClient and ExecuteTool set or nil
    messageHistory,     \* *messageHistory, owned by the caller
    pc,                 \* where the control of RunPrompt is
    ctxErr,             \* ctx.Err() != nil
    turnNumber,         \* local of RunPrompt
    toolCallsUsed,      \* local of RunPrompt
    lastAssistantText,  \* local of RunPrompt
    toolCalls,          \* the tool calls the current turn ranges over
    callIndex,          \* position of the range loop over toolCalls
    finishReason,       \* choice.FinishReason of the current turn
    result,             \* what RunPrompt returned: [text, err]
    callArgs,           \* what RunPrompt was called with: history, prompt, state of ctx
    completeCalls,      \* Complete calls the client has received in this invocation
    executed,           \* tool calls ExecuteTool has received in this invocation
    prompts,            \* RunPrompt invocations so far
    requestTools,       \* the Tools of every Complete request of this invocation
    toolRegistry,       \* the Registry
    executeInvoked,     \* invocations of a capability's Execute so far
    lastCall,           \* the latest direct call of the Registry and what it returned
    registryCalls,      \* direct calls of the Registry so far
    fileSystem,         \* the files, directories and symlinks there are
    lastAccess,         \* the last call of the path policy or of a file capability
    lastEgress,         \* the last call of the outbound network policy
    webRequest,         \* the Execute of a web capability: where it is and what it has connected to
    lastBash,           \* the last call of the Bash capability
    normalizeCall,      \* a text and what NormalizeJSONArguments makes of it
    choiceMessage,      \* choice.Message of the current turn, as the provider sent it
    fileOp,             \* the Execute of a file capability: where it is and what it has opened
    bashRun             \* the Execute of the Bash capability once the command has started

vars == <<env, runner, messageHistory, pc, ctxErr, turnNumber, toolCallsUsed,
          lastAssistantText, toolCalls, callIndex, finishReason, result, callArgs,
          completeCalls, executed, prompts, requestTools, toolRegistry, executeInvoked,
          lastCall, registryCalls, fileSystem, lastAccess, lastEgress,
          webRequest, lastBash, normalizeCall, fileOp, bashRun, choiceMessage>>

NoResult == [text |-> <<>>, err |-> "none"]

\* no file capability is being executed
NoFileOp ==
    [pc |-> "idle", tool |-> "", text |-> <<>>, path |-> NoPath, err |-> "", opened |-> {},
     data |-> <<>>, changedSince |-> FALSE]

\* no command has been started
NoBashRun ==
    [pc |-> "idle", command |-> <<>>, timeout |-> 0, ctxErr |-> "nil", completed |-> "",
     ctxErrAtExit |-> "nil", err |-> ""]

\* no choice has been received
NoMessage == Message(RoleAssistant, <<>>, <<>>, <<>>)

NoCall ==
    [op |-> "none", toolCall |-> ToolCall(<<>>, <<>>, <<>>), toolContext |-> MainToolContext,
     outcome |-> ToolOutcome(NilValue, <<>>), output |-> <<>>, matched |-> FALSE,
     invoked |-> <<>>, definitions |-> <<>>]

\* no call of the path policy or of a file capability has been made
NoAccess ==
    [op |-> "none", toolContext |-> MainToolContext, path |-> <<>>, before |-> NoFiles,
     err |-> "", opened |-> {}, data |-> <<>>,
     edit |-> [old |-> <<>>, new |-> <<>>, all |-> FALSE], result |-> NoEditResult]

\* no call of the outbound network policy has been made
NoEgress ==
    [op |-> "none", override |-> <<>>, rawURL |-> <<>>, resolved |-> Resolved("", <<>>),
     err |-> "", lookups |-> <<>>]

NoWebRequest ==
    [pc |-> "idle", tool |-> "", url |-> <<>>, err |-> "", checked |-> <<>>,
     connections |-> <<>>, redirects |-> 0]

NoBash ==
    [op |-> "none", denylist |-> <<>>, allowlist |-> <<>>, parsed |-> FALSE, command |-> <<>>,
     err |-> "", started |-> <<>>]

InitIn(e) ==
    /\ env = e
    /\ toolRegistry \in e.registries
    /\ runner \in IF toolRegistry.isNil
                  THEN {[Policy |-> p, LLMClient |-> TRUE, ExecuteTool |-> TRUE,
                         ToolDefinitions |-> <<>>] : p \in e.policies}
                  ELSE {[Policy |-> p, LLMClient |-> TRUE, ExecuteTool |-> TRUE,
                         ToolDefinitions |-> Definitions(toolRegistry, order)] :
                            p \in e.policies, order \in KeyOrders(toolRegistry)}
    /\ messageHistory \in e.histories
    /\ pc = "idle"
    /\ ctxErr = FALSE
    /\ turnNumber = 0
    /\ toolCallsUsed = 0
    /\ lastAssistantText = <<>>
    /\ toolCalls = <<>>
    /\ callIndex = 0
    /\ finishReason = ""
    /\ result = NoResult
    /\ callArgs = [history |-> <<>>, prompt |-> <<>>, cancelled |-> FALSE]
    /\ completeCalls = 0
    /\ executed = <<>>
    /\ prompts = 0
    /\ requestTools = <<>>
    /\ executeInvoked = 0
    /\ lastCall = NoCall
    /\ registryCalls = 0
    /\ fileSystem \in e.fileSystems
    /\ lastAccess = NoAccess
    /\ lastEgress = NoEgress
    /\ webRequest = NoWebRequest
    /\ lastBash = NoBash
    /\ normalizeCall \in e.inputs
    /\ choiceMessage = NoMessage
    /\ fileOp = NoFileOp
    /\ bashRun = NoBashRun

Init == InitIn(PromptEnv)

InitSession == InitIn(SessionEnv)

InitDispatch == InitIn(DispatchEnv)

InitRawArguments == InitIn(RawArgumentsEnv)

InitEdit == InitIn(EditEnv)

InitInterleaved == InitIn(InterleavedEnv)

InitFailingTools == InitIn(FailingToolsEnv)

InitTermination == InitIn(TerminationEnv)

\* the capabilities of the Registry are set up, as the fakeTool of the
\* tests is, with the result and the error their Execute returns
InitRegistry == \E outcome \in ToolOutcomes : InitIn([RegistryEnv EXCEPT !.toolOutcomes = {outcome}])

InitPath == InitIn(PathEnv)

\* no prompt and no registry, the environment variable of the outbound
\* policy not set
InitPolicy == InitIn(EgressEnv)

\* a text is chosen
InitNormalize == \E input \in NormalizeInputs : InitIn([EgressEnv EXCEPT !.inputs = {input}])

\* the environment variable is set, or not, before the process starts
InitEgress == \E value \in Overrides : InitIn([EgressEnv EXCEPT !.allowPrivateEgress = value])

(***************************************************************************)
(* Pure parts of RunPrompt.                                                *)
(***************************************************************************)
\* an assignment to the last entry where an append belongs
AppendMessage_Overwrite(history, m) ==
    IF history = <<>> THEN <<m>> ELSE [history EXCEPT ![Len(history)] = m]

\* *messageHistory = append(*messageHistory, m)
AppendMessage(history, m) == Append(history, m)

\* locals that live on from one invocation to the next, as fields of the Runner would
KeptLocals ==
    [turnNumber |-> IF turnNumber = 0 THEN 1 ELSE turnNumber,
     toolCallsUsed |-> toolCallsUsed,
     lastAssistantText |-> lastAssistantText]

\* turnNumber := 1; toolCallsUsed := 0; lastAssistantText := ""
FreshLocals == [turnNumber |-> 1, toolCallsUsed |-> 0, lastAssistantText |-> <<>>]

\* a loop without the turn test
TurnsExceeded_Never(policy, turn) == FALSE

\* a turn test that is off by one
TurnsExceeded_OffByOne(policy, turn) == policy.MaxTurns > 0 /\ turn >= policy.MaxTurns

\* runner.Policy.MaxTurns > 0 && turnNumber > runner.Policy.MaxTurns
TurnsExceeded(policy, turn) == policy.MaxTurns > 0 /\ turn > policy.MaxTurns

\* a budget test that forgets the calls of earlier turns
ToolBudgetExceeded_IgnoresUsed(policy, used, count) ==
    policy.MaxToolCalls > 0 /\ count > policy.MaxToolCalls

\* runner.Policy.MaxToolCalls > 0 && toolCallsUsed+toolCallCount > runner.Policy.MaxToolCalls
ToolBudgetExceeded(policy, used, count) ==
    policy.MaxToolCalls > 0 /\ used + count > policy.MaxToolCalls

\* the sanitised text: the normalised one, or "{}" when there is none
SanitizedArguments(n) == IF n.valid THEN n.text ELSE EmptyObject

\* the argument sanitation of one tool call
NormalizeToolCall(toolCall) ==
    [toolCall EXCEPT !.Arguments = SanitizedArguments(NormalizedArguments[toolCall.Arguments])]

\* a loop that skips no tool call
KeepsToolCall_All(toolCall) == TRUE

\* a tool call with a blank id or name is skipped
KeepsToolCall(toolCall) == ~IsBlank(toolCall.ID) /\ ~IsBlank(toolCall.Name)

\* the content backfill inside the loop over message.ToolCalls
Backfill(content, message) ==
    IF IsBlank(content) /\ ~IsBlank(message.Content) THEN message.Content ELSE content

\* assistantMessage as it is when the loop over message.ToolCalls ends
AssistantMessage(message) ==
    LET normalized == [i \in 1..Len(message.ToolCalls) |-> NormalizeToolCall(message.ToolCalls[i])]
        kept == SelectSeq(normalized, KeepsToolCall)
        content == IF Len(message.ToolCalls) > 0
                   THEN Backfill(message.Content, message) ELSE message.Content
    IN Message(RoleAssistant, content, <<>>, kept)

\* lastAssistantText after the assistant message has been appended
NextLastAssistantText(last, assistantMessage, message) ==
    IF ~IsBlank(assistantMessage.Content) THEN assistantMessage.Content
    ELSE IF ~IsBlank(message.Content) THEN message.Content
    ELSE last

\* choice.FinishReason == "stop" || toolCallCount == 0
StopsLoop(choice, toolCallCount) == choice.FinishReason = "stop" \/ toolCallCount = 0

\* a dispatch loop that ranges over the calls as the provider sent them
DispatchList_Raw(assistantMessage, message) == message.ToolCalls

\* the list the dispatch loop ranges over
DispatchList(assistantMessage, message) == assistantMessage.ToolCalls

\* a range loop that walks the list from its end
CurrentToolCall_Reversed(calls, index) == calls[Len(calls) + 1 - index]

\* the element the range loop hands to ExecuteTool at position index
CurrentToolCall(calls, index) == calls[index]

\* a tool message that carries the tool's name where the call id belongs
ToolMessage_NameAsID(toolCall, toolResponse) == Message(RoleTool, toolResponse, toolCall.Name, <<>>)

\* a tool message without a call id
ToolMessage_NoID(toolCall, toolResponse) == Message(RoleTool, toolResponse, <<>>, <<>>)

\* the tool message appended for a finished call
ToolMessage(toolCall, toolResponse) == Message(RoleTool, toolResponse, toolCall.ID, <<>>)

\* a range loop that ends after its first element
MoreToolCalls_OnlyFirst(calls, index) == FALSE

\* the range loop over the calls of the turn has elements left after index
MoreToolCalls(calls, index) == index < Len(calls)

\* a loop that never looks at the context
LoopCtxErr_Never == FALSE

\* ctx.Err() != nil at the top of the loop
LoopCtxErr == ctxErr

\* a dispatch loop that never looks at the context
DispatchCtxErr_Never == FALSE

\* ctx.Err() != nil before a tool dispatch
DispatchCtxErr == ctxErr

(***************************************************************************)
(* Actions: the steps of RunPrompt and of its environment.                 *)
(***************************************************************************)
Return(text, err) ==
    /\ pc' = "returned"
    /\ result' = [text |-> text, err |-> err]

\* the caller invokes RunPrompt(ctx, &messageHistory, prompt, correlationID);
\* cancelled tells whether ctx is already cancelled
RunPromptStart(prompt, cancelled) ==
    /\ pc \in {"idle", "returned"}
    /\ prompts < env.maxPrompts
    /\ registryCalls = 0
    /\ prompts' = prompts + 1
    /\ callArgs' = [history |-> messageHistory, prompt |-> prompt, cancelled |-> cancelled]
    /\ ctxErr' = cancelled
    /\ completeCalls' = 0
    /\ executed' = <<>>
    /\ toolCalls' = <<>>
    /\ callIndex' = 0
    /\ finishReason' = ""
    /\ IF ~runner.LLMClient THEN
            /\ Return(<<>>, ErrMissingClient)
            /\ UNCHANGED <<messageHistory, turnNumber, toolCallsUsed, lastAssistantText>>
       ELSE IF ~runner.ExecuteTool THEN
            /\ Return(<<>>, ErrMissingExecutor)
            /\ UNCHANGED <<messageHistory, turnNumber, toolCallsUsed, lastAssistantText>>
       ELSE /\ messageHistory' = AppendMessage(messageHistory, Message(RoleUser, prompt, <<>>, <<>>))
            /\ turnNumber' = FreshLocals.turnNumber
            /\ toolCallsUsed' = FreshLocals.toolCallsUsed
            /\ lastAssistantText' = FreshLocals.lastAssistantText
            /\ pc' = "loop"
            /\ result' = NoResult
    /\ requestTools' = <<>>
    /\ choiceMessage' = NoMessage
    /\ UNCHANGED <<env, runner, toolRegistry, fileSystem, lastAccess, lastEgress, webRequest, lastBash, normalizeCall, fileOp, bashRun, lastCall, registryCalls, executeInvoked>>

\* the context is cancelled (by its deadline or by the caller) while RunPrompt runs
Cancel ==
    /\ pc \in {"loop", "completing", "dispatch", "executing"}
    /\ ~ctxErr
    /\ ctxErr' = TRUE
    /\ UNCHANGED <<choiceMessage, env, runner, toolRegistry, fileSystem, lastAccess, lastEgress, webRequest, lastBash, normalizeCall, fileOp, bashRun, lastCall, registryCalls,
                   requestTools, executeInvoked, messageHistory, pc, turnNumber, toolCallsUsed, lastAssistantText,
                   toolCalls, callIndex, finishReason, result, callArgs, completeCalls, executed, prompts>>

\* top of the loop: the context is cancelled
LoopCancelled ==
    /\ pc = "loop"
    /\ LoopCtxErr
    /\ Return(lastAssistantText, ErrCanceled)
    /\ UNCHANGED <<choiceMessage, env, runner, toolRegistry, fileSystem, lastAccess, lastEgress, webRequest, lastBash, normalizeCall, fileOp, bashRun, lastCall, registryCalls,
                   requestTools, executeInvoked, messageHistory, ctxErr, turnNumber, toolCallsUsed, lastAssistantText,
                   toolCalls, callIndex, finishReason, callArgs, completeCalls, executed, prompts>>

\* top of the loop: the turn budget is used up
LoopMaxTurns ==
    /\ pc = "loop"
    /\ ~LoopCtxErr
    /\ TurnsExceeded(runner.Policy, turnNumber)
    /\ Return(lastAssistantText, ErrMaxTurnsExceeded)
    /\ UNCHANGED <<choiceMessage, env, runner, toolRegistry, fileSystem, lastAccess, lastEgress, webRequest, lastBash, normalizeCall, fileOp, bashRun, lastCall, registryCalls,
                   requestTools, executeInvoked, messageHistory, ctxErr, turnNumber, toolCallsUsed, lastAssistantText,
                   toolCalls, callIndex, finishReason, callArgs, completeCalls, executed, prompts>>

\* top of the loop: runner.LLMClient.Complete is called with the history
CallComplete ==
    /\ pc = "loop"
    /\ ~LoopCtxErr
    /\ ~TurnsExceeded(runner.Policy, turnNumber)
    /\ completeCalls < env.providerCalls
    /\ pc' = "completing"
    /\ completeCalls' = completeCalls + 1
    /\ requestTools' = Append(requestTools, runner.ToolDefinitions)
    /\ UNCHANGED <<choiceMessage, env, runner, toolRegistry, fileSystem, lastAccess, lastEgress, webRequest, lastBash, normalizeCall, fileOp, bashRun, lastCall, registryCalls,
                   executeInvoked, messageHistory, ctxErr, turnNumber, toolCallsUsed, lastAssistantText,
                   toolCalls, callIndex, finishReason, result, callArgs, executed, prompts>>

\* a Runner that calls the provider again after a failed call
CompleteFails_Retries ==
    /\ pc = "completing"
    /\ \E err \in CompleteErrors(ctxErr, messageHistory) : pc' = "loop"
    /\ UNCHANGED <<choiceMessage, env, runner, toolRegistry, fileSystem, lastAccess, lastEgress, webRequest, lastBash, normalizeCall, fileOp, bashRun, lastCall, registryCalls,
                   requestTools, executeInvoked, messageHistory, ctxErr, turnNumber, toolCallsUsed, lastAssistantText,
                   toolCalls, callIndex, finishReason, result, callArgs, completeCalls, executed, prompts>>

\* Complete returns an error
CompleteFails ==
    /\ pc = "completing"
    /\ \E err \in CompleteErrors(ctxErr, messageHistory) : Return(<<>>, err)
    /\ UNCHANGED <<choiceMessage, env, runner, toolRegistry, fileSystem, lastAccess, lastEgress, webRequest, lastBash, normalizeCall, fileOp, bashRun, lastCall, registryCalls,
                   requestTools, executeInvoked, messageHistory, ctxErr, turnNumber, toolCallsUsed, lastAssistantText,
                   toolCalls, callIndex, finishReason, callArgs, completeCalls, executed, prompts>>

\* Complete returns a response without choices
CompleteNoChoices ==
    /\ pc = "completing"
    /\ ~HasUnsupportedRole(messageHistory)
    /\ LET resp == EmptyResponse
       IN /\ Len(resp.Choices) = 0
          /\ Return(<<>>, ErrNoChoices)
    /\ UNCHANGED <<choiceMessage, env, runner, toolRegistry, fileSystem, lastAccess, lastEgress, webRequest, lastBash, normalizeCall, fileOp, bashRun, lastCall, registryCalls,
                   requestTools, executeInvoked, messageHistory, ctxErr, turnNumber, toolCallsUsed, lastAssistantText,
                   toolCalls, callIndex, finishReason, callArgs, completeCalls, executed, prompts>>

\* Complete returns a choice: the assistant message is built and appended,
\* then the turn stops the loop, exceeds the tool budget or starts dispatching
TurnCompleted(resp) ==
    LET choice == resp.Choices[1]
        message == choice.Message
        assistantMessage == AssistantMessage(message)
        last == NextLastAssistantText(lastAssistantText, assistantMessage, message)
        toolCallCount == Len(assistantMessage.ToolCalls)
    IN /\ messageHistory' = AppendMessage(messageHistory, assistantMessage)
       /\ choiceMessage' = message
       /\ finishReason' = choice.FinishReason
       /\ lastAssistantText' = last
       /\ IF StopsLoop(choice, toolCallCount) THEN
              /\ Return(last, ErrNil)
              /\ UNCHANGED <<toolCalls, callIndex>>
          ELSE IF ToolBudgetExceeded(runner.Policy, toolCallsUsed, toolCallCount) THEN
              /\ Return(last, ErrToolCallBudgetExceeded)
              /\ UNCHANGED <<toolCalls, callIndex>>
          ELSE
              /\ toolCalls' = DispatchList(assistantMessage, message)
              /\ callIndex' = 1
              /\ pc' = "dispatch"
              /\ UNCHANGED result

CompleteReturns ==
    /\ pc = "completing"
    /\ ~HasUnsupportedRole(messageHistory)
    /\ \E resp \in ResponsesWithChoice(env, completeCalls) :
        /\ Len(resp.Choices) > 0
        /\ TurnCompleted(resp)
    /\ UNCHANGED <<env, runner, toolRegistry, fileSystem, lastAccess, lastEgress, webRequest, lastBash, normalizeCall, fileOp, bashRun, lastCall, registryCalls,
                   requestTools, executeInvoked, ctxErr, turnNumber, toolCallsUsed,
                   callArgs, completeCalls, executed, prompts>>

\* before a dispatch: the context is cancelled
DispatchCancelled ==
    /\ pc = "dispatch"
    /\ DispatchCtxErr
    /\ Return(lastAssistantText, ErrCanceled)
    /\ UNCHANGED <<choiceMessage, env, runner, toolRegistry, fileSystem, lastAccess, lastEgress, webRequest, lastBash, normalizeCall, fileOp, bashRun, lastCall, registryCalls,
                   requestTools, executeInvoked, messageHistory, ctxErr, turnNumber, toolCallsUsed, lastAssistantText,
                   toolCalls, callIndex, finishReason, callArgs, completeCalls, executed, prompts>>

\* runner.ExecuteTool is called with the current tool call
ExecuteToolCall ==
    /\ pc = "dispatch"
    /\ ~DispatchCtxErr
    /\ callIndex <= Len(toolCalls)
    /\ executed' = Append(executed, CurrentToolCall(toolCalls, callIndex))
    /\ pc' = "executing"
    /\ UNCHANGED <<choiceMessage, env, runner, toolRegistry, fileSystem, lastAccess, lastEgress, webRequest, lastBash, normalizeCall, fileOp, bashRun, lastCall, registryCalls,
                   requestTools, executeInvoked, messageHistory, ctxErr, turnNumber, toolCallsUsed, lastAssistantText,
                   toolCalls, callIndex, finishReason, result, callArgs, completeCalls, prompts>>

\* the ExecuteTool closure main gives the Runner: the context of the
\* prompt and the correlation id are put into the ToolContext.  seen is the
\* state the Registry finds the context in
TurnToolContext(toolContext, seen, correlationID) ==
    [toolContext EXCEPT !.Context = seen, !.CorrelationID = correlationID]

\* what runner.ExecuteTool can return for a tool call, with the
\* invocations of capabilities it makes.  A context cancelled while
\* ExecuteTool runs may or may not be found cancelled by the Registry
ExecuteToolResults(e, registry, toolCall, cancelled) ==
    IF e.executor = "stub"
    THEN {[output |-> r, invoked |-> <<>>] : r \in e.toolResponses}
    ELSE { DispatchToolCall(registry, TurnToolContext(e.toolContext, seen, <<"c">>), toolCall, outcome) :
             seen \in (IF cancelled THEN {"live", "canceled", "deadline"} ELSE {"live"}),
             outcome \in e.toolOutcomes }

\* a Runner that returns an error when ExecuteTool returns an error envelope
ExecuteToolReturns_AbortsOnError ==
    /\ pc = "executing"
    /\ \E r \in ExecuteToolResults(env, toolRegistry, CurrentToolCall(toolCalls, callIndex), ctxErr) :
        /\ messageHistory' = AppendMessage(messageHistory,
                                 ToolMessage(CurrentToolCall(toolCalls, callIndex), r.output))
        /\ executeInvoked' = executeInvoked + Len(r.invoked)
        /\ IF env.executor = "dispatch" /\ ~DecodeEnvelope(r.output).OK THEN
                /\ Return(lastAssistantText, ErrProvider)
                /\ UNCHANGED <<callIndex, toolCallsUsed, turnNumber>>
           ELSE IF MoreToolCalls(toolCalls, callIndex) THEN
                /\ callIndex' = callIndex + 1
                /\ pc' = "dispatch"
                /\ UNCHANGED <<toolCallsUsed, turnNumber, result>>
           ELSE /\ toolCallsUsed' = toolCallsUsed + Len(toolCalls)
                /\ turnNumber' = turnNumber + 1
                /\ pc' = "loop"
                /\ UNCHANGED <<callIndex, result>>
    /\ UNCHANGED <<choiceMessage, env, runner, toolRegistry, fileSystem, lastAccess, lastEgress, webRequest, lastBash, normalizeCall, fileOp, bashRun, lastCall, registryCalls, requestTools,
                   ctxErr, lastAssistantText, toolCalls, finishReason,
                   callArgs, completeCalls, executed, prompts>>

\* ExecuteTool returns: its tool message is appended; after the last call
\* of the turn the counters advance and the loop continues
ExecuteToolReturns ==
    /\ pc = "executing"
    /\ \E r \in ExecuteToolResults(env, toolRegistry, CurrentToolCall(toolCalls, callIndex), ctxErr) :
        /\ messageHistory' = AppendMessage(messageHistory,
                                 ToolMessage(CurrentToolCall(toolCalls, callIndex), r.output))
        /\ executeInvoked' = executeInvoked + Len(r.invoked)
    /\ IF MoreToolCalls(toolCalls, callIndex) THEN
            /\ callIndex' = callIndex + 1
            /\ pc' = "dispatch"
            /\ UNCHANGED <<toolCallsUsed, turnNumber>>
       ELSE /\ toolCallsUsed' = toolCallsUsed + Len(toolCalls)
            /\ turnNumber' = turnNumber + 1
            /\ pc' = "loop"
            /\ UNCHANGED callIndex
    /\ UNCHANGED <<choiceMessage, env, runner, toolRegistry, fileSystem, lastAccess, lastEgress, webRequest, lastBash, normalizeCall, fileOp, bashRun, lastCall, registryCalls, requestTools,
                   ctxErr, lastAssistantText, toolCalls, finishReason, result,
                   callArgs, completeCalls, executed, prompts>>

\* the variables of RunPrompt, which a direct call of the Registry leaves alone
runnerVars == <<choiceMessage, env, runner, messageHistory, pc, ctxErr, turnNumber, toolCallsUsed,
                lastAssistantText, toolCalls, callIndex, finishReason, result, callArgs,
                completeCalls, executed, prompts, requestTools, toolRegistry>>

\* a test calls registry.Execute(toolCall, toolContext)
RegistryExecute ==
    /\ pc = "idle"
    /\ registryCalls < MaxRegistryCalls
    /\ ~toolRegistry.isNil
    /\ \E toolCall \in RegistryCalls, toolContext \in ToolContexts, outcome \in env.toolOutcomes :
        \E r \in {Execute(toolRegistry, toolCall, toolContext, outcome)} :
           /\ lastCall' = [op |-> "Execute", toolCall |-> toolCall, toolContext |-> toolContext,
                           outcome |-> outcome, output |-> r.output, matched |-> r.matched,
                           invoked |-> r.invoked, definitions |-> <<>>]
           /\ executeInvoked' = executeInvoked + Len(r.invoked)
    /\ registryCalls' = registryCalls + 1
    /\ UNCHANGED <<runnerVars, fileSystem, lastAccess, lastEgress, webRequest, lastBash, normalizeCall, fileOp, bashRun>>

\* a test calls DispatchToolCall(logger, toolRegistry, toolContext, toolCall)
RegistryDispatch ==
    /\ pc = "idle"
    /\ registryCalls < MaxRegistryCalls
    /\ \E toolCall \in RegistryCalls, toolContext \in ToolContexts, outcome \in env.toolOutcomes :
        \E r \in {DispatchToolCall(toolRegistry, toolContext, toolCall, outcome)} :
           /\ lastCall' = [op |-> "DispatchToolCall", toolCall |-> toolCall,
                           toolContext |-> toolContext, outcome |-> outcome,
                           output |-> r.output, matched |-> TRUE,
                           invoked |-> r.invoked, definitions |-> <<>>]
           /\ executeInvoked' = executeInvoked + Len(r.invoked)
    /\ registryCalls' = registryCalls + 1
    /\ UNCHANGED <<runnerVars, fileSystem, lastAccess, lastEgress, webRequest, lastBash, normalizeCall, fileOp, bashRun>>

\* a caller calls registry.Definitions()
RegistryDefinitions ==
    /\ pc = "idle"
    /\ registryCalls < MaxRegistryCalls
    /\ ~toolRegistry.isNil
    /\ \E order \in KeyOrders(toolRegistry) :
        lastCall' = [NoCall EXCEPT !.op = "Definitions",
                                   !.definitions = Definitions(toolRegistry, order)]
    /\ registryCalls' = registryCalls + 1
    /\ UNCHANGED <<runnerVars, executeInvoked, fileSystem, lastAccess, lastEgress, webRequest, lastBash, normalizeCall, fileOp, bashRun>>

\* what a call leaves in lastAccess
Access(op, toolContext, text, before, accessed) ==
    [op |-> op, toolContext |-> toolContext, path |-> text, before |-> before,
     err |-> accessed.err, opened |-> accessed.opened, data |-> accessed.data,
     edit |-> NoAccess.edit, result |-> accessed.result]

\* the variables a call of the path policy or of a file capability leaves alone
registryVars == <<runnerVars, executeInvoked, lastCall, registryCalls>>

\* a test sets up a filesystem and calls EnsurePathAllowed(ctx, path)
CallEnsurePathAllowed ==
    /\ lastAccess.op = "none"
    /\ \E toolContext \in PolicyContexts, text \in CandidateTexts :
        lastAccess' = Access("EnsurePathAllowed", toolContext, text, fileSystem,
                             Refused(EnsurePathAllowed(fileSystem, toolContext, ParsePath(text)),
                                     fileSystem))
    /\ UNCHANGED <<registryVars, fileSystem, lastEgress, webRequest, lastBash, normalizeCall, fileOp, bashRun>>

\* Read is executed with a file_path
CallRead ==
    /\ lastAccess.op = "none"
    /\ \E toolContext \in CapabilityContexts, text \in CandidateTexts :
        \E accessed \in {ReadExecute(fileSystem, toolContext, text)} :
            /\ lastAccess' = Access("Read", toolContext, text, fileSystem, accessed)
            /\ fileSystem' = accessed.fs
    /\ UNCHANGED <<registryVars, lastEgress, webRequest, lastBash, normalizeCall, fileOp, bashRun>>

\* Write is executed with a file_path and a content
CallWrite ==
    /\ lastAccess.op = "none"
    /\ \E toolContext \in CapabilityContexts, text \in CandidateTexts :
        \E accessed \in {WriteExecute(fileSystem, toolContext, text, <<"new">>)} :
            /\ lastAccess' = Access("Write", toolContext, text, fileSystem, accessed)
            /\ fileSystem' = accessed.fs
    /\ UNCHANGED <<registryVars, lastEgress, webRequest, lastBash, normalizeCall, fileOp, bashRun>>

\* EditPatch is executed with a file_path and an edit
CallEditPatch ==
    /\ lastAccess.op = "none"
    /\ \E toolContext \in CapabilityContexts, text \in CandidateTexts, edit \in Edits :
        \E accessed \in {EditPatchExecute(fileSystem, toolContext, text, edit)} :
            /\ lastAccess' = Access("EditPatch", toolContext, text, fileSystem, accessed)
            /\ fileSystem' = accessed.fs
    /\ UNCHANGED <<registryVars, lastEgress, webRequest, lastBash, normalizeCall, fileOp, bashRun>>

\* EditPatch is executed on the file a of the cwd
CallEditPatchOnFile ==
    /\ lastAccess.op = "none"
    /\ \E edit \in ContentEdits :
        \E accessed \in {EditPatchExecute(fileSystem, MainToolContext, <<"a">>, edit)} :
            /\ lastAccess' = [Access("EditPatch", MainToolContext, <<"a">>, fileSystem, accessed)
                                  EXCEPT !.edit = edit]
            /\ fileSystem' = accessed.fs
    /\ UNCHANGED <<registryVars, lastEgress, webRequest, lastBash, normalizeCall, fileOp, bashRun>>

NextEdit == CallEditPatchOnFile

SpecEdit == InitEdit /\ [][NextEdit]_vars

\* the paths the capabilities are given while the other process is at
\* work: a, and the new file n in a
InterleavedTexts == { <<"a">>, <<"a", Separator, "n">> }

\* what the other process puts in the place of /w/a: a symlink to the
\* directory /o, to the file /o/a, or to the root /w itself
ReplacementTargets == { Path(TRUE, <<"o">>), Path(TRUE, <<"o", "a">>), Path(TRUE, <<"w">>) }

\* the edit EditPatch is called with in this setting
InterleavedEdit == [old |-> <<"in">>, new |-> <<"out">>, all |-> FALSE]

\* Execute of Read, Write, EditPatch or ListDir up to the return of
\* EnsurePathAllowed
FileToolChecks ==
    /\ fileOp.pc = "idle"
    /\ \E tool \in {"Read", "Write", "EditPatch", "ListDir"}, text \in InterleavedTexts :
        \E resolvedPath \in {ResolvePath(MainToolContext, TrimSpace(text))} :
            \E policyErr \in {EnsurePathAllowed(fileSystem, MainToolContext, resolvedPath)} :
                fileOp' = [NoFileOp EXCEPT
                              !.pc = IF policyErr = "" THEN "checked" ELSE "returned",
                              !.tool = tool, !.text = text, !.path = resolvedPath,
                              !.err = IF policyErr = "" THEN "" ELSE <<PathPolicyViolation, policyErr>>]
    /\ UNCHANGED <<registryVars, fileSystem, lastAccess, lastEgress, webRequest, lastBash, normalizeCall, bashRun>>

\* what the call after EnsurePathAllowed makes of the filesystem as it is
\* now: os.ReadFile for Read and EditPatch, os.WriteFile for Write,
\* os.ReadDir for ListDir
FileToolAccess(fs, tool, resolvedPath) ==
    CASE tool = "Read" -> ReadChecked(fs, "", resolvedPath)
      [] tool = "Write" -> WriteChecked(fs, "", resolvedPath, <<"new">>)
      [] tool = "ListDir" -> ListChecked(fs, "", resolvedPath)
      [] tool = "EditPatch" -> Wrapped("error reading file: ", ReadFile(fs, resolvedPath))

\* EditPatch goes on to os.WriteFile when the file was read and holds old_string
EditGoesOn(tool, accessed) ==
    tool = "EditPatch" /\ accessed.err = "" /\ Count(accessed.data, InterleavedEdit.old) > 0

\* the capability opens the path it has checked
FileToolOperates ==
    /\ fileOp.pc = "checked"
    /\ \E accessed \in {FileToolAccess(fileSystem, fileOp.tool, fileOp.path)} :
        /\ fileOp' = [fileOp EXCEPT
                          !.pc = IF EditGoesOn(fileOp.tool, accessed) THEN "read" ELSE "returned",
                          !.err = IF fileOp.tool = "EditPatch" /\ accessed.err = ""
                                     /\ ~EditGoesOn(fileOp.tool, accessed)
                                  THEN ErrOldStringNotFound ELSE accessed.err,
                          !.opened = accessed.opened,
                          !.data = IF fileOp.tool = "ListDir" THEN <<>> ELSE accessed.data]
        /\ fileSystem' = accessed.fs
    /\ UNCHANGED <<registryVars, lastAccess, lastEgress, webRequest, lastBash, normalizeCall, bashRun>>

\* EditPatch writes the file it has read
EditPatchWrites ==
    /\ fileOp.pc = "read"
    /\ \E accessed \in {EditCounted(fileSystem, Accessed("", fileOp.opened, fileOp.data, fileSystem),
                                     fileOp.path, TrimSpace(fileOp.text), InterleavedEdit,
                                     Count(fileOp.data, InterleavedEdit.old))} :
        /\ fileOp' = [fileOp EXCEPT !.pc = "returned", !.err = accessed.err,
                                    !.opened = @ \cup accessed.opened]
        /\ fileSystem' = accessed.fs
    /\ UNCHANGED <<registryVars, lastAccess, lastEgress, webRequest, lastBash, normalizeCall, bashRun>>

\* another process puts a symlink in the place of /w/a, before the capability runs or while it does
OtherProcessReplaces ==
    /\ fileOp.pc \in {"idle", "checked", "read"}
    /\ fileSystem[<<"w", "a">>].kind # "symlink"
    /\ \E target \in ReplacementTargets :
        fileSystem' = [fileSystem EXCEPT ![<<"w", "a">>] = LinkNode(target)]
    /\ fileOp' = [fileOp EXCEPT !.changedSince = fileOp.pc # "idle"]
    /\ UNCHANGED <<registryVars, lastAccess, lastEgress, webRequest, lastBash, normalizeCall, bashRun>>

NextInterleaved ==
    \/ FileToolChecks
    \/ FileToolOperates
    \/ EditPatchWrites
    \/ OtherProcessReplaces

\* a file capability and another process that changes the filesystem
SpecInterleaved == InitInterleaved /\ [][NextInterleaved]_vars

\* ListDir is executed with a path
CallListDir ==
    /\ lastAccess.op = "none"
    /\ \E toolContext \in CapabilityContexts, text \in CandidateTexts :
        \E accessed \in {ListDirExecute(fileSystem, toolContext, text)} :
            /\ lastAccess' = Access("ListDir", toolContext, text, fileSystem, accessed)
            /\ fileSystem' = accessed.fs
    /\ UNCHANGED <<registryVars, lastEgress, webRequest, lastBash, normalizeCall, fileOp, bashRun>>

Next ==
    \/ \E prompt \in Prompts, cancelled \in BOOLEAN : RunPromptStart(prompt, cancelled)
    \/ Cancel
    \/ LoopCancelled
    \/ LoopMaxTurns
    \/ CallComplete
    \/ CompleteFails
    \/ CompleteNoChoices
    \/ CompleteReturns
    \/ DispatchCancelled
    \/ ExecuteToolCall
    \/ ExecuteToolReturns

Spec == Init /\ [][Next]_vars

SpecSession == InitSession /\ [][Next]_vars

\* one prompt whose tool calls reach the Registry with the arguments
\* the provider wrote
SpecRawArguments == InitRawArguments /\ [][Next]_vars

\* one prompt whose tool calls fail
SpecFailingTools == InitFailingTools /\ [][Next]_vars

\* the steps RunPrompt takes by itself, from one statement to the next
RunnerStep ==
    \/ LoopCancelled
    \/ LoopMaxTurns
    \/ CallComplete
    \/ DispatchCancelled
    \/ ExecuteToolCall

\* the provider's Complete returns
ProviderReturns ==
    \/ CompleteFails
    \/ CompleteNoChoices
    \/ CompleteReturns

\* RunPrompt goes on as long as it has a statement to execute, every
\* call of the provider returns and every ExecuteTool returns; whether
\* the context is ever cancelled is left open
Fairness ==
    /\ WF_vars(RunnerStep)
    /\ WF_vars(ProviderReturns)
    /\ WF_vars(ExecuteToolReturns)

\* one prompt with a provider and tools that always return
SpecTermination == InitTermination /\ [][Next]_vars /\ Fairness

NextRegistry ==
    \/ RegistryExecute
    \/ RegistryDispatch
    \/ RegistryDefinitions

NextDispatch ==
    \/ \E prompt \in Prompts, cancelled \in BOOLEAN : RunPromptStart(prompt, cancelled)
    \/ Cancel
    \/ LoopCancelled
    \/ LoopMaxTurns
    \/ CallComplete
    \/ CompleteFails
    \/ CompleteNoChoices
    \/ CompleteReturns
    \/ DispatchCancelled
    \/ ExecuteToolCall
    \/ ExecuteToolReturns
    \/ RegistryExecute
    \/ RegistryDispatch
    \/ RegistryDefinitions

\* a Registry wired as main wires it: either it is called directly, or one
\* prompt is run whose tool calls go through DispatchToolCall
SpecDispatch == InitDispatch /\ [][NextDispatch]_vars

\* direct calls of the Registry
SpecRegistry == InitRegistry /\ [][NextRegistry]_vars

\* the outcomes of the resolver in a call: it has one only if it is asked
OutcomesFor(override, rawURL) ==
    IF EnsureOutboundURLAllowed(override, rawURL, Resolved("", <<>>)).lookups = <<>>
    THEN {Resolved("", <<>>)}
    ELSE ResolverOutcomes

\* a test puts a resolver in place of resolveIPAddrs and calls
\* EnsureOutboundURLAllowed(ctx, rawURL)
CallEnsureOutboundURLAllowed ==
    /\ lastEgress.op = "none"
    /\ \E rawURL \in URLs :
        \E resolved \in OutcomesFor(env.allowPrivateEgress, rawURL) :
            \E checked \in {EnsureOutboundURLAllowed(env.allowPrivateEgress, rawURL, resolved)} :
                lastEgress' = [op |-> "EnsureOutboundURLAllowed",
                               override |-> env.allowPrivateEgress, rawURL |-> rawURL,
                               resolved |-> resolved,
                               err |-> checked.err, lookups |-> checked.lookups]
    /\ UNCHANGED <<registryVars, fileSystem, lastAccess, webRequest, lastBash, normalizeCall, fileOp, bashRun>>

\* the outcomes of the resolver when the policy is called with a URL
WebOutcomesFor(override, rawURL) ==
    IF EnsureOutboundURLAllowed(override, rawURL, Resolved("", <<>>)).lookups = <<>>
    THEN {Resolved("", <<>>)}
    ELSE WebResolverOutcomes

\* Execute has asked the policy: it returns the error, or goes on to
\* client.Do
WebBegin(tool, begun) ==
    webRequest' = [pc |-> IF begun.err = "" THEN "requesting" ELSE "returned",
                   tool |-> tool, url |-> begun.url, err |-> begun.err,
                   checked |-> begun.checked, connections |-> <<>>, redirects |-> 0]

\* FetchWebPageTool.Execute(ctx, arguments), to client.Do
FetchWebPageExecute ==
    /\ webRequest.pc = "idle"
    /\ \E pageURL \in WebURLs, parsed \in BOOLEAN :
        \E resolved \in WebOutcomesFor(env.allowPrivateEgress, TrimSpace(pageURL)) :
            WebBegin("FetchWebPage",
                     FetchWebPageBegin(env.allowPrivateEgress, ToolArguments(parsed, pageURL), resolved))
    /\ UNCHANGED <<registryVars, fileSystem, lastAccess, lastEgress, lastBash, normalizeCall, fileOp, bashRun>>

\* WebSearchOllamaTool.Execute(ctx, arguments), to client.Do
WebSearchOllamaExecute ==
    /\ webRequest.pc = "idle"
    /\ \E searchURL \in WebURLs, arguments \in WebArgumentSets :
        \E resolved \in WebOutcomesFor(env.allowPrivateEgress, TrimSpace(searchURL)) :
            WebBegin("WebSearchOllama",
                     WebSearchOllamaBegin(env.allowPrivateEgress, arguments, searchURL, resolved))
    /\ UNCHANGED <<registryVars, fileSystem, lastAccess, lastEgress, lastBash, normalizeCall, fileOp, bashRun>>

\* client.Do dials the host of the request: a literal address as it is
\* written, a name at one of the addresses the resolver returns now
ClientDials ==
    /\ webRequest.pc = "requesting"
    /\ IF ParseIP(DialHost(webRequest.url)) # NilIP
       THEN webRequest' = [webRequest EXCEPT
                !.pc = "connected",
                !.connections = Append(@, ParseIP(DialHost(webRequest.url)))]
       ELSE \E resolved \in WebResolverOutcomes :
                IF resolved.err # ""
                THEN webRequest' = [webRequest EXCEPT !.pc = "returned", !.err = RequestFailed(webRequest.tool)]
                ELSE \E i \in 1..Len(resolved.addrs) :
                        webRequest' = [webRequest EXCEPT
                            !.pc = "connected", !.connections = Append(@, resolved.addrs[i])]
    /\ UNCHANGED <<registryVars, fileSystem, lastAccess, lastEgress, lastBash, normalizeCall, fileOp, bashRun>>

\* the server answers with a redirect and the client follows it
ClientFollowsRedirect ==
    /\ webRequest.pc = "connected"
    /\ webRequest.redirects < MaxRedirects
    /\ \E location \in RedirectTargets :
        webRequest' = [webRequest EXCEPT !.pc = "requesting", !.url = location, !.redirects = @ + 1]
    /\ UNCHANGED <<registryVars, fileSystem, lastAccess, lastEgress, lastBash, normalizeCall, fileOp, bashRun>>

\* the server answers, or the request fails, and Execute returns
WebExecuteReturns ==
    /\ webRequest.pc = "connected"
    /\ \E err \in {"", StatusFailed(webRequest.tool), RequestFailed(webRequest.tool)} :
        webRequest' = [webRequest EXCEPT !.pc = "returned", !.err = err]
    /\ UNCHANGED <<registryVars, fileSystem, lastAccess, lastEgress, lastBash, normalizeCall, fileOp, bashRun>>

NextWeb ==
    \/ FetchWebPageExecute
    \/ WebSearchOllamaExecute
    \/ ClientDials
    \/ ClientFollowsRedirect
    \/ WebExecuteReturns

\* one Execute of a web capability, the override not being set
SpecWeb == InitPolicy /\ [][NextWeb]_vars

\* the outcomes of a command in a call: it has one only if it is started
RunOutcomesFor(denylist, allowlist, arguments) ==
    IF BashExecute(denylist, allowlist, arguments, "ok").started = <<>> THEN {"none"}
    ELSE RunOutcomes

\* BashTool.Execute(ctx, arguments)
CallBash ==
    /\ lastBash.op = "none"
    /\ \E denylist \in Denylists, allowlist \in Allowlists, command \in Commands, parsed \in BOOLEAN :
        \E outcome \in RunOutcomesFor(denylist, allowlist, ToolArguments(parsed, command)) :
            \E ran \in {BashExecute(denylist, allowlist, ToolArguments(parsed, command), outcome)} :
                lastBash' = [op |-> "Bash", denylist |-> denylist, allowlist |-> allowlist,
                             parsed |-> parsed, command |-> command,
                             err |-> ran.err, started |-> ran.started]
    /\ UNCHANGED <<registryVars, fileSystem, lastAccess, lastEgress, webRequest, normalizeCall, fileOp, bashRun>>

\* the fallback BashTool.Execute gives EffectiveTimeout, in milliseconds
DefaultBashTimeout == 30000

\* EffectiveTimeout(ctx, fallback)
EffectiveTimeout(toolContext, fallback) ==
    IF toolContext.Timeout > 0 THEN toolContext.Timeout ELSE fallback

\* the contexts Bash is started with: no timeout, and the 50 ms of the test
TimeoutContexts ==
    { MainToolContext, ToolContext(<<Separator, "w">>, <<Separator, "w">>, 50, "nil", <<>>) }

\* the commands that are started or refused
TimedCommands == { <<"ls">>, <<"sleep", " ", "1">>, <<"rm", " ", "x">> }

\* BashTool.Execute up to cmd.CombinedOutput(): the command is started
\* under commandCtx, or Execute returns without starting it
BashStarts ==
    /\ bashRun.pc = "idle"
    /\ \E toolContext \in TimeoutContexts, command \in TimedCommands :
        \E ran \in {BashExecute(<<>>, <<>>, ToolArguments(TRUE, command), "ok")} :
            bashRun' = [NoBashRun EXCEPT
                           !.pc = IF ran.started = <<>> THEN "returned" ELSE "running",
                           !.command = command,
                           !.timeout = EffectiveTimeout(toolContext, DefaultBashTimeout),
                           !.err = ran.err]
    /\ UNCHANGED <<registryVars, fileSystem, lastAccess, lastEgress, webRequest, lastBash, normalizeCall, fileOp>>

\* the timer of context.WithTimeout fires: commandCtx.Err() becomes
\* DeadlineExceeded, unless the context is already done; cancel() is
\* deferred, so the timer is armed until Execute returns
DeadlineFires ==
    /\ bashRun.pc \in {"running", "exited"}
    /\ bashRun.ctxErr = "nil"
    /\ bashRun' = [bashRun EXCEPT !.ctxErr = "deadline"]
    /\ UNCHANGED <<registryVars, fileSystem, lastAccess, lastEgress, webRequest, lastBash, normalizeCall, fileOp>>

\* the context of the ToolContext, parent of commandCtx, is cancelled
ParentCancels ==
    /\ bashRun.pc \in {"running", "exited"}
    /\ bashRun.ctxErr = "nil"
    /\ bashRun' = [bashRun EXCEPT !.ctxErr = "canceled"]
    /\ UNCHANGED <<registryVars, fileSystem, lastAccess, lastEgress, webRequest, lastBash, normalizeCall, fileOp>>

\* the command ends by itself, with exit status 0 or not, and
\* CombinedOutput returns
CommandCompletes ==
    /\ bashRun.pc = "running"
    /\ \E completed \in {"ok", "failed"} :
        bashRun' = [bashRun EXCEPT !.pc = "exited", !.completed = completed,
                                   !.ctxErrAtExit = bashRun.ctxErr]
    /\ UNCHANGED <<registryVars, fileSystem, lastAccess, lastEgress, webRequest, lastBash, normalizeCall, fileOp>>

\* exec.CommandContext kills the command once commandCtx is done, and
\* CombinedOutput returns the error
CommandKilled ==
    /\ bashRun.pc = "running"
    /\ bashRun.ctxErr # "nil"
    /\ bashRun' = [bashRun EXCEPT !.pc = "exited", !.completed = "killed",
                                  !.ctxErrAtExit = bashRun.ctxErr]
    /\ UNCHANGED <<registryVars, fileSystem, lastAccess, lastEgress, webRequest, lastBash, normalizeCall, fileOp>>

\* what Execute returns after CombinedOutput: commandCtx.Err() is asked
\* first, the error of the command second
BashResult(commandCtxErr, completed) ==
    IF commandCtxErr = "deadline" THEN "bash command timed out"
    ELSE IF completed # "ok" THEN "error executing bash command"
    ELSE ""

\* BashTool.Execute from the return of CombinedOutput on
BashReturns ==
    /\ bashRun.pc = "exited"
    /\ bashRun' = [bashRun EXCEPT !.pc = "returned",
                                  !.err = BashResult(bashRun.ctxErr, bashRun.completed)]
    /\ UNCHANGED <<registryVars, fileSystem, lastAccess, lastEgress, webRequest, lastBash, normalizeCall, fileOp>>

NextDeadline ==
    \/ BashStarts
    \/ DeadlineFires
    \/ ParentCancels
    \/ CommandCompletes
    \/ CommandKilled
    \/ BashReturns

\* one Execute of Bash, the command and the deadline racing
SpecDeadline == InitPolicy /\ [][NextDeadline]_vars

NextBash == CallBash

\* one call of the Bash capability
SpecBash == InitPolicy /\ [][NextBash]_vars

\* a caller hands a text to NormalizeJSONArguments
CallNormalizeJSONArguments ==
    /\ normalizeCall.op = "input"
    /\ \E r \in {Normalize(normalizeCall.raw)} :
        normalizeCall' = [normalizeCall EXCEPT !.op = "returned", !.first = r]
    /\ UNCHANGED <<registryVars, fileSystem, lastAccess, lastEgress, webRequest, lastBash, fileOp, bashRun>>

\* the text it returned is handed to it again
CallNormalizeJSONArgumentsAgain ==
    /\ normalizeCall.op = "returned"
    /\ normalizeCall.first.valid
    /\ \E r \in {Normalize(normalizeCall.first.text)} :
        normalizeCall' = [normalizeCall EXCEPT !.op = "again", !.second = r]
    /\ UNCHANGED <<registryVars, fileSystem, lastAccess, lastEgress, webRequest, lastBash, fileOp, bashRun>>

NextNormalize ==
    \/ CallNormalizeJSONArguments
    \/ CallNormalizeJSONArgumentsAgain

\* NormalizeJSONArguments on every text of NormalizeInputs, and on what
\* it returns
SpecNormalize == InitNormalize /\ [][NextNormalize]_vars

NextPath ==
    \/ CallEnsurePathAllowed
    \/ CallRead
    \/ CallWrite
    \/ CallEditPatch
    \/ CallListDir

\* one call of the path policy or of a file capability on each filesystem
SpecPath == InitPath /\ [][NextPath]_vars

NextEgress == CallEnsureOutboundURLAllowed

\* one call of the outbound network policy
SpecEgress == InitEgress /\ [][NextEgress]_vars

TypeOK ==
    /\ pc \in {"idle", "loop", "completing", "dispatch", "executing", "returned"}
    /\ turnNumber \in Nat
    /\ toolCallsUsed \in Nat

(***************************************************************************)
(* Vocabulary of the properties.                                           *)
(***************************************************************************)
IsPrefix(a, b) == Len(a) <= Len(b) /\ SubSeq(b, 1, Len(a)) = a

\* RunPrompt has been called and has got past its nil checks
Started == pc \in {"loop", "completing", "dispatch", "executing"}
              \/ (pc = "returned" /\ result.err \notin {ErrMissingClient, ErrMissingExecutor})

Returned(err) == pc = "returned" /\ result.err = err

\* the messages this invocation has appended after the user message
Appended == SubSeq(messageHistory, Len(callArgs.history) + 2, Len(messageHistory))

OfRole(h, role) == SelectSeq(h, LAMBDA m : m.Role = role)

LastMessage == messageHistory[Len(messageHistory)]

\* the assistant message of the current turn is the last message: none of
\* the turn's tool calls has a tool message yet
TurnJustAppended == Started /\ Appended # <<>> /\ LastMessage.Role = RoleAssistant

\* tool calls whose tool message is in history: the calls of finished dispatches
Answered == Len(OfRole(Appended, RoleTool))

(***************************************************************************)
(* C1.  Tool-call budget.  With MaxToolCalls = M > 0: ExecuteTool has      *)
(* been invoked at most M times in the invocation; RunPrompt returns       *)
(* ErrToolCallBudgetExceeded only on a turn whose tool calls added to the  *)
(* calls already used exceed M (so a turn that reaches exactly M is not    *)
(* refused), and then none of the turn's calls was executed and no tool    *)
(* message follows its assistant message; and a turn whose finish reason   *)
(* is not "stop" and whose calls would exceed M does return that error.    *)
(***************************************************************************)
C1_OverBudget ==
    /\ runner.Policy.MaxToolCalls > 0
    /\ TurnJustAppended
    /\ Answered + Len(LastMessage.ToolCalls) > runner.Policy.MaxToolCalls

C1_Refused ==
    /\ Returned(ErrToolCallBudgetExceeded)
    /\ TurnJustAppended
    /\ Len(executed) = Answered

JSONSamplesOK ==
    /\ JSONValid(<<"{", "}">>)
    /\ JSONValid(<<" ", "[", "1", ",", " ", "2", "]", " ">>)
    /\ JSONValid(<<"{", "\"", "a", "\"", ":", "[", "t", "r", "u", "e", ",", "-", "0", ".", "5", "e", "+", "1", "]", "}">>)
    /\ JSONValid(<<"\"", "\\", "u", "0", "0", "a", "F", "}", "\"">>)
    /\ JSONValid(<<"1", "2">>)
    /\ JSONValid(<<"n", "u", "l", "l">>)
    /\ ~JSONValid(<<>>)
    /\ ~JSONValid(<<"{">>)
    /\ ~JSONValid(<<"{", "}", "x">>)
    /\ ~JSONValid(<<"[", "1", ",", "]">>)
    /\ ~JSONValid(<<"{", "\"", "a", "\"", "}">>)
    /\ ~JSONValid(<<"{", "\"", "a", "\"", ":", "1", ",", "}">>)
    /\ ~JSONValid(<<"0", "1">>)
    /\ ~JSONValid(<<"1", ".">>)
    /\ ~JSONValid(<<"-">>)
    /\ ~JSONValid(<<"\"", "a">>)
    /\ ~JSONValid(<<"\"", "\\", "x", "\"">>)
    /\ ~JSONValid(<<"t", "r", "u">>)
    /\ ~JSONValid(<<"]">>)
    /\ ~JSONValid(<<"[", "}">>)
    /\ NormalizeJSONArguments(<<" ", "[", "1", "]", "x">>) = [text |-> <<"[", "1", "]">>, valid |-> TRUE]
    /\ NormalizeJSONArguments(<<"x", "{", "\"", "}", "\"", ":", "1", "}", "}">>).text = <<"{", "\"", "}", "\"", ":", "1", "}">>
    /\ NormalizeJSONArguments(<<"{">>) = [text |-> <<>>, valid |-> FALSE]
    /\ NormalizeJSONArguments(<<" ", "\t">>) = [text |-> <<"{", "}">>, valid |-> TRUE]

\* the sum of the tool-call counts of the assistant messages of h
RECURSIVE CallsRecorded(_)
CallsRecorded(h) ==
    IF h = <<>> THEN 0
    ELSE (IF Head(h).Role = RoleAssistant THEN Len(Head(h).ToolCalls) ELSE 0)
         + CallsRecorded(Tail(h))

(***************************************************************************)
(* C2.  Turn budget.  With MaxTurns = N > 0: Complete has been called at   *)
(* most N times in the invocation; RunPrompt returns ErrMaxTurnsExceeded   *)
(* only after exactly N provider calls and N appended assistant messages,  *)
(* when every tool call those turns recorded has been executed and         *)
(* answered by a tool message, the last message of history.                *)
(***************************************************************************)
C2_MaxTurns ==
    /\ runner.Policy.MaxTurns > 0 => completeCalls <= runner.Policy.MaxTurns
    /\ Returned(ErrMaxTurnsExceeded) =>
        /\ runner.Policy.MaxTurns > 0
        /\ turnNumber = runner.Policy.MaxTurns + 1
        /\ completeCalls = runner.Policy.MaxTurns
        /\ Len(OfRole(Appended, RoleAssistant)) = runner.Policy.MaxTurns
        /\ Len(executed) = CallsRecorded(Appended)
        /\ Answered = Len(executed)
        /\ LastMessage.Role = RoleTool

\* two tool-calling turns were run in full, the third is refused
C2_Witness ==
    /\ Returned(ErrMaxTurnsExceeded)
    /\ runner.Policy.MaxTurns = 2
    /\ Len(executed) >= 3

(***************************************************************************)
(* C3.  The counters belong to one invocation.  In a session of several    *)
(* RunPrompt invocations on the same Runner and history, every invocation  *)
(* starts at turn 1 with 0 tool calls used, the counters count only the    *)
(* provider calls and tool executions of the current invocation, and a     *)
(* budget error is returned only when the current invocation alone has     *)
(* used up the budget.                                                     *)
(***************************************************************************)
C3_CountersPerInvocation ==
    /\ (pc = "loop" /\ completeCalls = 0) => (turnNumber = 1 /\ toolCallsUsed = 0)
    /\ pc = "loop" => (turnNumber = completeCalls + 1 /\ toolCallsUsed = Len(executed))
    /\ Returned(ErrToolCallBudgetExceeded) =>
           Len(executed) + Len(LastMessage.ToolCalls) > runner.Policy.MaxToolCalls
    /\ Returned(ErrMaxTurnsExceeded) => completeCalls = runner.Policy.MaxTurns

\* the first prompt used the whole tool budget and both turns; the second
\* prompt does so again and ends without a budget error
C3_Witness ==
    /\ prompts = 2
    /\ runner.Policy.MaxToolCalls = 2
    /\ runner.Policy.MaxTurns = 2
    /\ Len(OfRole(callArgs.history, RoleTool)) = 2
    /\ Len(OfRole(callArgs.history, RoleAssistant)) = 2
    /\ Len(executed) = 2
    /\ Returned(ErrNil)

\* everything after the history RunPrompt was called with
SinceCall == SubSeq(messageHistory, Len(callArgs.history) + 1, Len(messageHistory))

\* h from position i on is a run of turns: an assistant message followed by
\* one tool message per tool call it records, in order and with the call's
\* id, and last a final assistant message with nothing after it
RECURSIVE TurnsThenFinal(_, _)
TurnsThenFinal(h, i) ==
    /\ i <= Len(h)
    /\ h[i].Role = RoleAssistant
    /\ \/ i = Len(h)
       \/ LET k == Len(h[i].ToolCalls)
          IN /\ k >= 1
             /\ i + k < Len(h)
             /\ \A j \in 1..k : /\ h[i + j].Role = RoleTool
                                /\ h[i + j].ToolCallID = h[i].ToolCalls[j].ID
             /\ TurnsThenFinal(h, i + k + 1)

(***************************************************************************)
(* C4.  Shape of a successful invocation.  When RunPrompt returns without  *)
(* error after n tool-calling turns and one stopping turn, the history has *)
(* grown by the user message, then per turn one assistant message and one  *)
(* tool message per tool call of it, in order and carrying the call's id,  *)
(* then the final assistant message: 1 + (n + 1) + (k_1 + ... + k_n)       *)
(* messages; and ExecuteTool was invoked once per tool message, with the   *)
(* calls in that order.                                                    *)
(***************************************************************************)
C4_SuccessShape ==
    Returned(ErrNil) =>
        /\ IsPrefix(callArgs.history, messageHistory)
        /\ SinceCall[1] = Message(RoleUser, callArgs.prompt, <<>>, <<>>)
        /\ TurnsThenFinal(SinceCall, 2)
        /\ Len(OfRole(SinceCall, RoleAssistant)) = completeCalls
        /\ Len(OfRole(SinceCall, RoleTool)) = Len(executed)
        /\ Len(SinceCall) = 1 + completeCalls + Len(executed)
        /\ \A j \in 1..Len(executed) :
               OfRole(SinceCall, RoleTool)[j].ToolCallID = executed[j].ID

\* n = 1, k_1 = 2 with two different call ids
C4_Witness ==
    /\ Returned(ErrNil)
    /\ completeCalls = 2
    /\ Len(executed) = 2
    /\ executed[1].ID # executed[2].ID
    /\ Len(SinceCall) = 5

(***************************************************************************)
(* C5.  Serial dispatch in the provider's order.  While the Runner is in   *)
(* the dispatch loop of a turn, at position j of the turn's tool calls:    *)
(* the loop ranges over the tool calls of the turn's assistant message;    *)
(* the calls 1..j-1 have returned and their tool messages are the last     *)
(* j-1 messages of history, in order; at most one call is in flight, call  *)
(* j; and no call after j has been handed to ExecuteTool.                  *)
(***************************************************************************)
InFlight == IF pc = "executing" THEN 1 ELSE 0

C5_SerialDispatch ==
    /\ Started => Len(executed) = Answered + InFlight
    /\ pc \in {"dispatch", "executing"} =>
        LET a == Len(messageHistory) - (callIndex - 1)
            n == callIndex - 1 + InFlight
        IN /\ a > Len(callArgs.history) + 1
           /\ messageHistory[a].Role = RoleAssistant
           /\ toolCalls = messageHistory[a].ToolCalls
           /\ callIndex \in 1..Len(toolCalls)
           /\ \A j \in 1..(callIndex - 1) :
                  /\ messageHistory[a + j].Role = RoleTool
                  /\ messageHistory[a + j].ToolCallID = toolCalls[j].ID
           /\ n <= Len(executed)
           /\ SubSeq(executed, Len(executed) - n + 1, Len(executed)) = SubSeq(toolCalls, 1, n)

\* the second of two different calls is in flight, the first is answered
C5_Witness ==
    /\ pc = "executing"
    /\ callIndex = 2
    /\ toolCalls[1] # toolCalls[2]
    /\ LastMessage.Role = RoleTool
    /\ LastMessage.ToolCallID = toolCalls[1].ID

(***************************************************************************)
(* C6.  Every tool message in history carries the id of a tool call that   *)
(* the most recent assistant message before it records.                    *)
(***************************************************************************)
LastAssistantBefore(h, i) ==
    LET S == {a \in 1..(i - 1) : h[a].Role = RoleAssistant}
    IN IF S = {} THEN 0 ELSE CHOOSE a \in S : \A b \in S : b <= a

C6_ToolMessageMatchesCall ==
    \A i \in 1..Len(messageHistory) :
        messageHistory[i].Role = RoleTool =>
            LET a == LastAssistantBefore(messageHistory, i)
            IN /\ a > 0
               /\ \E j \in 1..Len(messageHistory[a].ToolCalls) :
                      messageHistory[a].ToolCalls[j].ID = messageHistory[i].ToolCallID

\* a tool message of a second turn, whose call id the first turn did not use
C6_Witness ==
    /\ LastMessage.Role = RoleTool
    /\ Len(OfRole(Appended, RoleAssistant)) = 2
    /\ \E i \in 1..Len(messageHistory) :
           /\ messageHistory[i].Role = RoleTool
           /\ messageHistory[i].ToolCallID # LastMessage.ToolCallID

(***************************************************************************)
(* C7.  RunPrompt only appends.  Every step leaves the history as it was   *)
(* as a prefix of the history after the step, so the history RunPrompt     *)
(* was called with and every message appended since stay where they are,   *)
(* unchanged, on every path, the error returns included.                   *)
(***************************************************************************)
C7_AppendOnly == [][IsPrefix(messageHistory, messageHistory')]_vars

\* an error return after the invocation has appended a whole turn
C7_Witness ==
    /\ pc = "returned"
    /\ result.err \in {ErrProvider, ErrNoChoices, ErrCanceled, ErrMaxTurnsExceeded,
                       ErrToolCallBudgetExceeded}
    /\ Len(Appended) >= 3
    /\ IsPrefix(callArgs.history, messageHistory)

(***************************************************************************)
(* C8.  What is dispatched is what history records.  While a tool call is  *)
(* in ExecuteTool, the assistant message of the current turn is in         *)
(* history, appended by this invocation, and lists at the position of the  *)
(* dispatch exactly the call handed to ExecuteTool: the same id, name and  *)
(* arguments, the arguments being in normalized form.                      *)
(***************************************************************************)
C8_DispatchedIsRecorded ==
    pc = "executing" =>
        LET call == executed[Len(executed)]
            a == LastAssistantBefore(messageHistory, Len(messageHistory) + 1)
        IN /\ a > Len(callArgs.history) + 1
           /\ a = Len(messageHistory) - (callIndex - 1)
           /\ callIndex <= Len(messageHistory[a].ToolCalls)
           /\ messageHistory[a].ToolCalls[callIndex] = call
           /\ NormalizeJSONArguments(call.Arguments) = [text |-> call.Arguments, valid |-> TRUE]

\* the call in flight had its arguments rewritten before it was recorded
C8_Witness ==
    /\ pc = "executing"
    /\ executed[Len(executed)].Arguments = <<"[", "1", "]">>
    /\ callIndex = 2

(***************************************************************************)
(* C9.  A context that is already cancelled when RunPrompt is called:      *)
(* the provider is never called, no tool is executed, the history is the   *)
(* history of the call plus the user message, and what RunPrompt returns   *)
(* is the cancellation error.                                              *)
(***************************************************************************)
C9_CancelledAtCall ==
    (Started /\ callArgs.cancelled) =>
        /\ pc \in {"loop", "returned"}
        /\ completeCalls = 0
        /\ executed = <<>>
        /\ messageHistory = Append(callArgs.history, Message(RoleUser, callArgs.prompt, <<>>, <<>>))
        /\ pc = "returned" => result.err = ErrCanceled

C9_Witness ==
    /\ callArgs.cancelled
    /\ Returned(ErrCanceled)
    /\ Len(messageHistory) = Len(callArgs.history) + 1

(***************************************************************************)
(* C10.  The text returned with a cancellation error is the best-known     *)
(* partial answer: the latest non-blank assistant content appended in the  *)
(* invocation, empty only when there is none.                              *)
(***************************************************************************)
RECURSIVE LatestNonBlankContent(_)
LatestNonBlankContent(h) ==
    IF h = <<>> THEN <<>>
    ELSE LET m == h[Len(h)]
         IN IF m.Role = RoleAssistant /\ ~IsBlank(m.Content) THEN m.Content
            ELSE LatestNonBlankContent(SubSeq(h, 1, Len(h) - 1))

C10_PartialAnswerOnCancel ==
    Returned(ErrCanceled) => result.text = LatestNonBlankContent(Appended)

\* the same, for the cancellations the Runner observes itself at the top of
\* the loop and before a dispatch (every return but that of Complete's error)
C10_ObservedByRunner ==
    (Returned(ErrCanceled) /\ ~(completeCalls > Len(OfRole(Appended, RoleAssistant)))) =>
        result.text = LatestNonBlankContent(Appended)

C10_ObservedWitness ==
    /\ Returned(ErrCanceled)
    /\ completeCalls = Len(OfRole(Appended, RoleAssistant))
    /\ completeCalls = 2
    /\ result.text = <<"a", "1">>
    /\ IsBlank(LastMessage.Content) \/ LastMessage.Role = RoleTool

(***************************************************************************)
(* C11.  A failure of the provider is fatal and never retried: every       *)
(* Complete call but the last of an invocation has produced an assistant   *)
(* message, and when RunPrompt has returned the error of Complete or the   *)
(* error of a response without choices, the failing call has appended no   *)
(* assistant message and no tool call was executed after it.               *)
(***************************************************************************)
ProviderFailures == {ErrProvider, ErrUnsupportedRole, ErrNoChoices}

C11_ProviderFailureFatal ==
    Started =>
        /\ completeCalls <= Len(OfRole(Appended, RoleAssistant)) + 1
        /\ (pc = "returned" /\ result.err \in ProviderFailures) =>
               /\ result.err # ErrNil
               /\ completeCalls = Len(OfRole(Appended, RoleAssistant)) + 1
               /\ Len(executed) = Answered
               /\ LastMessage.Role # RoleAssistant

\* the provider fails on the second call, after a turn whose tool was executed
C11_Witness ==
    /\ Returned(ErrProvider)
    /\ completeCalls = 2
    /\ Len(executed) >= 1
    /\ LastMessage.Role = RoleTool

\* the first call fails on the role of a message of the caller's history
C11_UnsupportedRoleWitness ==
    /\ Returned(ErrUnsupportedRole)
    /\ completeCalls = 1
    /\ Appended = <<>>

\* the provider answers the first call without choices
C11_NoChoicesWitness ==
    /\ Returned(ErrNoChoices)
    /\ completeCalls = 1
    /\ Appended = <<>>

(***************************************************************************)
(* Vocabulary of the properties of the Registry.                           *)
(***************************************************************************)
\* the latest direct call was Registry.Execute and it matched a capability
ExecuteMatched == lastCall.op = "Execute" /\ lastCall.matched

\* the envelope a reader of the latest output decodes
LastEnvelope == DecodeEnvelope(lastCall.output)

\* the latest direct call has invoked a capability's Execute
CapabilityInvoked == lastCall.invoked # <<>>

\* the capability was invoked and returned a nil error
CapabilitySucceeded == CapabilityInvoked /\ lastCall.outcome.err = <<>>

(***************************************************************************)
(* C12.  Every envelope Registry.Execute returns for a registered tool     *)
(* has exactly one of data and error: with ok=true the data is there, the  *)
(* error is not and meta.tool is the tool's name; with ok=false the error  *)
(* has a message and the data is not there.  When the capability was       *)
(* invoked and returned no error the envelope is one with ok=true, unless  *)
(* the result cannot be encoded.                                           *)
(***************************************************************************)
WellFormedEnvelope(object, name) ==
    LET envelope == DecodeEnvelope(object)
    IN /\ ("data" \in DOMAIN object) # ("error" \in DOMAIN object)
       /\ envelope.OK =>
            /\ "data" \in DOMAIN object
            /\ envelope.Error.isNil
            /\ "tool" \in DOMAIN envelope.Meta
            /\ envelope.Meta["tool"] = name
       /\ ~envelope.OK =>
            /\ ~envelope.Error.isNil
            /\ envelope.Error.Message # <<>>
            /\ "data" \notin DOMAIN object

C12_ExactlyOneOfDataError ==
    ExecuteMatched =>
        /\ WellFormedEnvelope(lastCall.output, lastCall.toolCall.Name)
        /\ (CapabilitySucceeded /\ lastCall.outcome.result.kind # "unencodable") => LastEnvelope.OK

\* the same for the capabilities whose result is not the nil interface
C12_NonNilResults ==
    (ExecuteMatched /\ ~(CapabilitySucceeded /\ lastCall.outcome.result.kind = "nil")) =>
        /\ WellFormedEnvelope(lastCall.output, lastCall.toolCall.Name)
        /\ (CapabilitySucceeded /\ lastCall.outcome.result.kind # "unencodable") => LastEnvelope.OK

\* a capability has returned the empty string and its envelope carries it as data
C12_NonNilWitness ==
    /\ ExecuteMatched
    /\ CapabilitySucceeded
    /\ lastCall.outcome.result = StringValue(<<>>)
    /\ LastEnvelope.OK
    /\ LastEnvelope.Data = StringValue(<<>>)

\* a capability has returned (nil, nil): ok=true with neither data nor error
C12_NilResultWitness ==
    /\ ExecuteMatched
    /\ CapabilitySucceeded
    /\ lastCall.outcome.result = NilValue
    /\ LastEnvelope.OK
    /\ DOMAIN lastCall.output = {"ok", "meta"}

(***************************************************************************)
(* C13.  Registry.Execute for a registered tool with a ToolContext whose   *)
(* cwd or allowed_root is empty or whitespace-only returns matched=true    *)
(* and an error envelope, and the capability's Execute is not invoked.     *)
(***************************************************************************)
BlankContext(toolContext) == IsBlank(toolContext.CWD) \/ IsBlank(toolContext.AllowedRoot)

C13_BlankContextRejected ==
    (lastCall.op = "Execute"
        /\ lastCall.toolCall.Name \in DOMAIN toolRegistry.tools
        /\ BlankContext(lastCall.toolContext)) =>
            /\ lastCall.matched
            /\ ~LastEnvelope.OK
            /\ ~LastEnvelope.Error.isNil
            /\ ~CapabilityInvoked
            /\ executeInvoked < registryCalls

\* cwd is set and allowed_root is whitespace-only
C13_Witness ==
    /\ ExecuteMatched
    /\ ~IsBlank(lastCall.toolContext.CWD)
    /\ lastCall.toolContext.AllowedRoot = <<" ">>
    /\ ~LastEnvelope.OK
    /\ ~CapabilityInvoked

(***************************************************************************)
(* C14.  Registry.Execute for a registered tool with cwd and allowed_root  *)
(* set and a context that is already cancelled returns matched=true and    *)
(* an error envelope whose message tells the cancellation, and the         *)
(* capability's Execute is not invoked.                                    *)
(***************************************************************************)
C14_CancelledContextRejected ==
    (lastCall.op = "Execute"
        /\ lastCall.toolCall.Name \in DOMAIN toolRegistry.tools
        /\ ~BlankContext(lastCall.toolContext)
        /\ lastCall.toolContext.Context \in {"canceled", "deadline"}) =>
            /\ lastCall.matched
            /\ ~LastEnvelope.OK
            /\ LastEnvelope.Error.Message # <<>>
            /\ LastEnvelope.Data = NilValue
            /\ lastCall.toolContext.Context = "canceled" =>
                   LastEnvelope.Error.Message = <<"tool execution cancelled">>
            /\ ~CapabilityInvoked
            /\ executeInvoked < registryCalls

\* the capability would have succeeded, the context was cancelled
C14_Witness ==
    /\ ExecuteMatched
    /\ lastCall.toolContext.Context = "canceled"
    /\ lastCall.outcome.err = <<>>
    /\ NormalizeJSONArguments(lastCall.toolCall.Arguments).valid
    /\ LastEnvelope.Error.Message = <<"tool execution cancelled">>
    /\ executeInvoked = 0

(***************************************************************************)
(* C15.  A tool name that is not registered: Registry.Execute returns the  *)
(* empty text with matched=false and invokes no capability;                *)
(* DispatchToolCall, on that Registry and on a nil one, returns an error   *)
(* envelope with ok=false, a message that names the tool and meta.tool     *)
(* equal to the name; and the Runner appends that envelope as the tool     *)
(* message of the call and goes on with the next call or the next turn.    *)
(***************************************************************************)
\* an envelope that tells that the tool is unknown
TellsUnknownTool(object, name) ==
    LET envelope == DecodeEnvelope(object)
    IN /\ ~envelope.OK
       /\ "data" \notin DOMAIN object
       /\ ~envelope.Error.isNil
       /\ \E i \in 1..Len(envelope.Error.Message) :
              SubSeq(envelope.Error.Message, i, i + Len(name) - 1) = name
       /\ DOMAIN envelope.Meta = {"tool"}
       /\ envelope.Meta["tool"] = name

\* the direct calls of Registry.Execute and of DispatchToolCall
C15_DirectCalls ==
    (lastCall.op \in {"Execute", "DispatchToolCall"}
        /\ (toolRegistry.isNil \/ lastCall.toolCall.Name \notin DOMAIN toolRegistry.tools)) =>
            /\ ~CapabilityInvoked
            /\ lastCall.op = "Execute" => (lastCall.output = <<>> /\ ~lastCall.matched)
            /\ lastCall.op = "DispatchToolCall" =>
                   TellsUnknownTool(lastCall.output, lastCall.toolCall.Name)

C15_DirectWitness ==
    /\ lastCall.op = "DispatchToolCall"
    /\ toolRegistry.isNil
    /\ TellsUnknownTool(lastCall.output, <<"R">>)

\* the step in which ExecuteTool returns for a call of an unknown tool
C15_RunnerAppendsAndContinues ==
    (pc = "executing" /\ pc' # "executing"
        /\ (toolRegistry.isNil
              \/ CurrentToolCall(toolCalls, callIndex).Name \notin DOMAIN toolRegistry.tools)) =>
            LET toolCall == CurrentToolCall(toolCalls, callIndex)
                appended == messageHistory'[Len(messageHistory')]
            IN /\ Len(messageHistory') = Len(messageHistory) + 1
               /\ SubSeq(messageHistory', 1, Len(messageHistory)) = messageHistory
               /\ appended.Role = RoleTool
               /\ appended.ToolCallID = toolCall.ID
               /\ TellsUnknownTool(appended.Content, toolCall.Name)
               /\ executeInvoked' = executeInvoked
               /\ result' = result
               /\ pc' = IF callIndex < Len(toolCalls) THEN "dispatch" ELSE "loop"

C15_UnknownTool == []C15_DirectCalls /\ [][C15_RunnerAppendsAndContinues]_vars

\* a call of the unknown tool "W" was answered with the envelope, then the
\* provider was called again and answered
C15_Witness ==
    /\ pc = "returned"
    /\ result.err = ErrNil
    /\ completeCalls = 2
    /\ executed = <<ToolCall(<<"2">>, <<"W">>, <<"{", "}">>)>>
    /\ executeInvoked = 0
    /\ Len(Appended) = 3
    /\ Appended[2].Role = RoleTool
    /\ TellsUnknownTool(Appended[2].Content, <<"W">>)

(***************************************************************************)
(* C16.  Registry.Definitions returns one definition per registered name,  *)
(* sorted by name byte by byte; every call returns the same sequence,      *)
(* whatever the order the map is ranged over; a Registry built from the    *)
(* same tools, of pairwise distinct names, passed in another order returns *)
(* that sequence too; and every Complete request of an invocation of       *)
(* RunPrompt carries that sequence.                                        *)
(***************************************************************************)
\* one definition per registered name, ascending by name
SortedOnePerName(definitions, registry) ==
    /\ Len(definitions) = Cardinality(DOMAIN registry.tools)
    /\ \A i \in 1..Len(definitions) :
        /\ definitions[i].Name \in DOMAIN registry.tools
        /\ definitions[i] = Definition(registry.tools[definitions[i].Name])
    /\ \A i \in 1..(Len(definitions) - 1) : StringLess(definitions[i].Name, definitions[i + 1].Name)

\* the tools of one list are those of the other, in some order
SameTools(a, b) ==
    /\ Len(a) = Len(b)
    /\ {a[i] : i \in 1..Len(a)} = {b[i] : i \in 1..Len(b)}

DistinctNames(toolList) ==
    \A i, j \in 1..Len(toolList) : toolList[i].name = toolList[j].name => i = j

\* a Registry built from the tools of the list returns the definitions
\* the Runner was given
SameDefinitions(toolList) ==
    \A order \in KeyOrders(NewRegistry(toolList)) :
        Definitions(NewRegistry(toolList), order) = runner.ToolDefinitions

\* the Registry and the Runner are as they were constructed
AsConstructed == pc = "idle" /\ registryCalls = 0 /\ ~toolRegistry.isNil

\* the definitions the Runner was given at its construction are sorted,
\* and are what Definitions returns for every order of the map
C16_AtConstruction ==
    AsConstructed =>
        /\ SortedOnePerName(runner.ToolDefinitions, toolRegistry)
        /\ \A order \in KeyOrders(toolRegistry) :
               Definitions(toolRegistry, order) = runner.ToolDefinitions

\* a later call of Definitions returns them again, and every Complete
\* request carries them
C16_EveryCall ==
    ~toolRegistry.isNil =>
        /\ lastCall.op = "Definitions" => lastCall.definitions = runner.ToolDefinitions
        /\ Len(requestTools) = completeCalls
        /\ \A i \in 1..Len(requestTools) : requestTools[i] = runner.ToolDefinitions

C16_DeterministicDefinitions ==
    /\ C16_AtConstruction
    /\ C16_EveryCall
    /\ AsConstructed =>
        \A a \in ToolLists, b \in ToolLists :
            (toolRegistry = NewRegistry(a) /\ SameTools(a, b) /\ DistinctNames(a)) => SameDefinitions(b)

\* the claim as it is worded: any tools, passed in any order
C16_Original ==
    /\ C16_AtConstruction
    /\ C16_EveryCall
    /\ AsConstructed =>
        \A a \in ToolLists, b \in ToolLists :
            (toolRegistry = NewRegistry(a) /\ SameTools(a, b)) => SameDefinitions(b)

\* two provider requests of one invocation, by a Runner whose Registry was
\* built from tools that were not passed in the order of their names
C16_Witness ==
    /\ toolRegistry = NewRegistry(<<ReadTool, AwkTool, BashTool>>)
    /\ runner.ToolDefinitions = <<Definition(BashTool), Definition(ReadTool), Definition(AwkTool)>>
    /\ completeCalls = 2
    /\ Len(requestTools) = 2

\* Definitions was called directly twice
C16_DirectWitness ==
    /\ lastCall.op = "Definitions"
    /\ registryCalls = 2
    /\ Len(lastCall.definitions) = 3

(***************************************************************************)
(* Vocabulary of the path properties.                                      *)
(***************************************************************************)
\* the real allowed root of a context: its allowed_root made absolute,
\* every symlink in it followed
RealRoot(fs, toolContext) ==
    EvalSymlinks(fs, Abs(ParsePath(TrimSpace(toolContext.AllowedRoot))))

\* the real location a walk leads to: the one it has reached, or, when
\* only names that do not exist yet are left of the path, the one they
\* will have once created.  Any other walk leads nowhere
Location(walked) ==
    IF walked.err = "" THEN [defined |-> TRUE, at |-> walked.at]
    ELSE IF walked.err = ENOENT /\ \A i \in 1..Len(walked.rest) : walked.rest[i] \notin {".", ".."}
    THEN [defined |-> TRUE, at |-> walked.at \o walked.rest]
    ELSE [defined |-> FALSE, at |-> <<>>]

\* the location a path as it is written leads to when it is opened
LeadsTo(fs, path) == Location(Open(fs, path))

\* a real location is the real root or lies beneath it
Inside(realRoot, at) ==
    Len(realRoot.parts) <= Len(at) /\ SubSeq(at, 1, Len(realRoot.parts)) = realRoot.parts

\* ".." is written after a name in the path
DotDotAfterName(path) ==
    \E i \in 2..Len(path.parts) : path.parts[i] = ".." /\ path.parts[i - 1] # ".."

\* some symlink of the filesystem points to nothing
HasDanglingLink(fs) ==
    \E at \in DOMAIN fs : fs[at].kind = "symlink" /\ Open(fs, Path(TRUE, at)).err = ENOENT

\* EnsurePathAllowed has been called with a root that exists
PolicyCalled ==
    /\ lastAccess.op = "EnsurePathAllowed"
    /\ ~IsBlank(lastAccess.toolContext.AllowedRoot)
    /\ RealRoot(lastAccess.before, lastAccess.toolContext).err = ""

\* where the path of the last call leads, the path being the resolved one
CandidatePath == ParsePath(lastAccess.path)

LedOutside(path) ==
    /\ LeadsTo(lastAccess.before, path).defined
    /\ ~Inside(RealRoot(lastAccess.before, lastAccess.toolContext).path,
               LeadsTo(lastAccess.before, path).at)

LedInside(path) ==
    /\ LeadsTo(lastAccess.before, path).defined
    /\ Inside(RealRoot(lastAccess.before, lastAccess.toolContext).path,
              LeadsTo(lastAccess.before, path).at)

(***************************************************************************)
(* C17.  EnsurePathAllowed returns an error for every path that leads to   *)
(* a real location outside the real allowed root.                          *)
(***************************************************************************)
\* C17: whatever the filesystem and the candidate path, a path whose real
\* location is outside the real allowed root is refused
C17_OutsideRejected ==
    (PolicyCalled /\ LedOutside(CandidatePath)) => lastAccess.err # ""

\* C17 for the paths in which no ".." follows a name: the symlink that
\* points outward, the leaf that does not exist yet beneath it and the
\* dangling symlink that points outward are among them
C17_WithoutDotDot ==
    (PolicyCalled /\ ~DotDotAfterName(CandidatePath) /\ LedOutside(CandidatePath)) =>
        lastAccess.err # ""

\* the path /w/l/a is refused, /w/l being a symlink to the directory /o
\* outside the root and /o/a not existing yet
C17_EscapeWitness ==
    /\ PolicyCalled
    /\ lastAccess.path = <<Separator, "w", Separator, "l", Separator, "a">>
    /\ lastAccess.before = Layout("dir", "none", {Path(TRUE, <<"o">>)})
    /\ LedOutside(CandidatePath)
    /\ lastAccess.err = ErrOutsideRoot

\* the path /w/l/.. is let through, /w/l being a symlink to /o: it
\* leads to /
C17_DotDotWitness ==
    /\ PolicyCalled
    /\ lastAccess.path = <<Separator, "w", Separator, "l", Separator, "..">>
    /\ lastAccess.before = Layout("none", "none", {Path(TRUE, <<"o">>)})
    /\ LeadsTo(lastAccess.before, CandidatePath) = [defined |-> TRUE, at |-> <<>>]
    /\ lastAccess.err = ""

(***************************************************************************)
(* C18.  EnsurePathAllowed accepts every path that leads to a real         *)
(* location inside the real allowed root.                                  *)
(***************************************************************************)
\* C18: whatever the filesystem and the candidate path, a path whose real
\* location is the real allowed root or beneath it is accepted
C18_InsideAccepted ==
    (PolicyCalled /\ LedInside(CandidatePath)) => lastAccess.err = ""

\* C18 for the filesystems without a dangling symlink: the root, the
\* names that do not exist yet and the symlink to a location in the root
\* that exists are among them
C18_WithoutDanglingLink ==
    (PolicyCalled /\ ~HasDanglingLink(lastAccess.before) /\ LedInside(CandidatePath)) =>
        lastAccess.err = ""

\* the path /w/l/a is accepted, /w/l being a symlink to the root and
\* /w/a not existing yet
C18_InRootLinkWitness ==
    /\ PolicyCalled
    /\ lastAccess.path = <<Separator, "w", Separator, "l", Separator, "a">>
    /\ lastAccess.before = Layout("none", "file", {Path(TRUE, <<"w">>)})
    /\ LedInside(CandidatePath)
    /\ lastAccess.err = ""

\* the path /w/l is refused, /w/l being a symlink to /w/a, which does
\* not exist yet
C18_DanglingWitness ==
    /\ PolicyCalled
    /\ lastAccess.path = <<Separator, "w", Separator, "l">>
    /\ lastAccess.before = Layout("none", "none", {Path(TRUE, <<"w", "a">>)})
    /\ LeadsTo(lastAccess.before, CandidatePath) = [defined |-> TRUE, at |-> <<"w", "a">>]
    /\ lastAccess.err = ErrPathSymlinks

(***************************************************************************)
(* C19.  Read, Write, EditPatch and ListDir open nothing outside the real  *)
(* allowed root.                                                           *)
(***************************************************************************)
CapabilityCalled ==
    /\ lastAccess.op \in {"Read", "Write", "EditPatch", "ListDir"}
    /\ RealRoot(lastAccess.before, lastAccess.toolContext).err = ""

\* the call ended with a path-policy error and has opened and changed nothing
PolicyRefused ==
    /\ lastAccess.err # ""
    /\ lastAccess.err[1] = PathPolicyViolation
    /\ lastAccess.opened = {}
    /\ lastAccess.data = <<>>
    /\ fileSystem = lastAccess.before

\* the call ended at the validation of its arguments, before any path was resolved
ArgumentsRefused == lastAccess.err \in {ErrFilePathRequired, ErrOldStringRequired}

\* the path the capability opens: the path of its arguments, resolved
ArgumentPath == ResolvePath(lastAccess.toolContext, OrDot(lastAccess.path))

\* C19: every location a file capability opens is inside the real allowed
\* root; a call with a path that leads outside it, its arguments being
\* valid otherwise, ends in a path-policy error, nothing being read or
\* written
C19_OpensInsideRoot ==
    CapabilityCalled =>
        /\ \A at \in lastAccess.opened :
               Inside(RealRoot(lastAccess.before, lastAccess.toolContext).path, at)
        /\ (~ArgumentsRefused /\ LedOutside(ArgumentPath)) => PolicyRefused

\* C19 for the arguments in which no ".." follows a name
C19_WithoutDotDot ==
    (CapabilityCalled /\ ~DotDotAfterName(ParsePath(lastAccess.path))) =>
        /\ \A at \in lastAccess.opened :
               Inside(RealRoot(lastAccess.before, lastAccess.toolContext).path, at)
        /\ (~ArgumentsRefused /\ LedOutside(ArgumentPath)) => PolicyRefused

\* Read of /w/l/a is refused, /w/l being a symlink to /o and /o/a a file
C19_RefusedWitness ==
    /\ CapabilityCalled
    /\ lastAccess.op = "Read"
    /\ lastAccess.path = <<Separator, "w", Separator, "l", Separator, "a">>
    /\ lastAccess.before = Layout("none", "file", {Path(TRUE, <<"o">>)})
    /\ PolicyRefused

\* ListDir of /w/l/.. has listed /, /w/l being a symlink to /o
C19_ListsOutsideWitness ==
    /\ CapabilityCalled
    /\ lastAccess.op = "ListDir"
    /\ lastAccess.path = <<Separator, "w", Separator, "l", Separator, "..">>
    /\ lastAccess.err = ""
    /\ lastAccess.opened = {<<>>}
    /\ [name |-> "o", type |-> "dir"] \in lastAccess.data

(***************************************************************************)
(* C20.  A hostname is blocked if any address it resolves to is in a       *)
(* disallowed class; a resolver error and an empty answer are errors.      *)
(***************************************************************************)
\* the upper and the lower half of an IPv4 address as numbers
Upper(ip4) == ip4[1] * 256 + ip4[2]
Lower(ip4) == ip4[3] * 256 + ip4[4]

\* the order of IPv4 addresses
NotAbove(a, b) == Upper(a) < Upper(b) \/ (Upper(a) = Upper(b) /\ Lower(a) <= Lower(b))

InRange(ip4, low, high) == NotAbove(low, ip4) /\ NotAbove(ip4, high)

\* the disallowed classes: loopback, the RFC1918 private ranges,
\* link-local unicast and multicast, multicast, unspecified, 169.254/16
\* and 100.64.0.0/10
DisallowedClass(ip) ==
    IF To4(ip) # NilIP
    THEN \/ InRange(To4(ip), IPv4(127, 0, 0, 0), IPv4(127, 255, 255, 255))
         \/ InRange(To4(ip), IPv4(10, 0, 0, 0), IPv4(10, 255, 255, 255))
         \/ InRange(To4(ip), IPv4(172, 16, 0, 0), IPv4(172, 31, 255, 255))
         \/ InRange(To4(ip), IPv4(192, 168, 0, 0), IPv4(192, 168, 255, 255))
         \/ InRange(To4(ip), IPv4(169, 254, 0, 0), IPv4(169, 254, 255, 255))
         \/ InRange(To4(ip), IPv4(224, 0, 0, 0), IPv4(239, 255, 255, 255))
         \/ InRange(To4(ip), IPv4(100, 64, 0, 0), IPv4(100, 127, 255, 255))
         \/ To4(ip) = IPv4(0, 0, 0, 0)
    ELSE /\ Len(ip) = 16
         /\ \/ ip = IPv6(0, 0, 1)
            \/ ip = IPv6(0, 0, 0)
            \/ ip[1] = 254 /\ ip[2] \in 128..191
            \/ ip[1] = 255

\* the policy has been called, the override not being set, with a URL
\* whose host is not an IP literal
NameChecked ==
    /\ lastEgress.op = "EnsureOutboundURLAllowed"
    /\ ~OverrideSet(lastEgress.override)
    /\ ParseIP(TrimSpace(Hostname(ParseURL(TrimSpace(lastEgress.rawURL))))) = NilIP

\* the resolver has been asked
Asked == lastEgress.lookups # <<>>

\* C20: with the override unset and a host that is not an IP literal, the
\* request passes only after the resolver has been asked, and it is
\* refused if the resolver fails, returns no address, or returns any
\* address of a disallowed class, whatever else it returns
C20_AnyDisallowedAddressBlocks ==
    NameChecked =>
        /\ lastEgress.err = "" => Asked
        /\ (Asked /\ lastEgress.resolved.err # "") => lastEgress.err # ""
        /\ (Asked /\ lastEgress.resolved.addrs = <<>>) => lastEgress.err # ""
        /\ (Asked /\ \E i \in 1..Len(lastEgress.resolved.addrs) :
                         DisallowedClass(lastEgress.resolved.addrs[i])) => lastEgress.err # ""

\* example.com resolves to a public address followed by a private one,
\* and is blocked
C20_Witness ==
    /\ NameChecked
    /\ Asked
    /\ lastEgress.resolved = Resolved("", <<IPv4(8, 8, 8, 8), IPv4(172, 31, 255, 255)>>)
    /\ lastEgress.err = "blocked outbound host"

\* the resolver returns no address, and the call fails
C20_NoAddressWitness ==
    /\ NameChecked
    /\ Asked
    /\ lastEgress.resolved = Resolved("", <<>>)
    /\ lastEgress.err = "failed resolving host: no addresses"

\* a hostname that resolves to public addresses only passes
C20_PassWitness ==
    /\ NameChecked
    /\ Asked
    /\ lastEgress.resolved = Resolved("", <<IPv4(8, 8, 8, 8), IPv6(32, 1, 1)>>)
    /\ lastEgress.err = ""

(***************************************************************************)
(* C21.  What the outbound policy rejects without asking the resolver.    *)
(***************************************************************************)
\* the policy has been called, the override not being set
PolicyInForce ==
    /\ lastEgress.op = "EnsureOutboundURLAllowed"
    /\ ~OverrideSet(lastEgress.override)

\* the URL of the call as url.Parse reads it, and its hostname
CalledURL == ParseURL(TrimSpace(lastEgress.rawURL))
CalledHost == Hostname(CalledURL)

\* the scheme of the URL is http or https, in any letter case
WebSchemeOf(url) == url.err = "" /\ url.Scheme \in {<<"http">>, <<"https">>, <<"HTTP">>, <<"Https">>}

WebScheme == WebSchemeOf(CalledURL)

\* the hostname is localhost or ends in .localhost, in any letter case
LocalNameOf(url, host) ==
    /\ url.err = ""
    /\ host # <<>>
    /\ host[Len(host)] \in {"localhost", "LOCALHOST"}
    /\ Len(host) > 1 => host[Len(host) - 1] = "."

LocalName == LocalNameOf(CalledURL, CalledHost)

\* the host is the literal of an address of a disallowed class
DisallowedLiteralOf(url, host) ==
    /\ url.err = ""
    /\ \E ip \in {ParseIP(host)} : ip # NilIP /\ DisallowedClass(ip)

DisallowedLiteral == DisallowedLiteralOf(CalledURL, CalledHost)

\* C21: with the override unset, a URL whose scheme is not http or https
\* is rejected, a URL whose hostname is localhost or ends in .localhost
\* is rejected without the resolver being asked, and so is a URL whose
\* host is a literal loopback or private address
C21_RejectedWithoutResolver ==
    PolicyInForce =>
        \A url \in {CalledURL} : \A host \in {Hostname(url)} :
            /\ ~WebSchemeOf(url) => (lastEgress.err # "" /\ ~Asked)
            /\ LocalNameOf(url, host) => (lastEgress.err # "" /\ ~Asked)
            /\ DisallowedLiteralOf(url, host) => (lastEgress.err # "" /\ ~Asked)

\* http://LOCALHOST is blocked and the resolver is not asked
C21_Witness ==
    /\ PolicyInForce
    /\ lastEgress.rawURL = <<"http", "://", "LOCALHOST">>
    /\ LocalName
    /\ lastEgress.err = "blocked outbound host"
    /\ ~Asked

\* http://10.0.0.1/ is blocked as an address
C21_LiteralWitness ==
    /\ PolicyInForce
    /\ lastEgress.rawURL = <<"http", "://", "10.0.0.1", "/">>
    /\ DisallowedLiteral
    /\ lastEgress.err = "blocked outbound IP"

\* file:///etc is rejected for its scheme
C21_SchemeWitness ==
    /\ PolicyInForce
    /\ lastEgress.rawURL = <<"file", "://", "/", "etc">>
    /\ ~WebScheme
    /\ lastEgress.err = "unsupported URL scheme"

(***************************************************************************)
(* C22.  The override: "true" alone sets it, and it disables every check.  *)
(***************************************************************************)
\* the value of the variable reads true once the blanks around it are
\* removed, in any letter case
ExplicitOptIn(value) == TrimSpace(value) \in {<<"true">>, <<"True">>, <<"TRUE">>}

\* C22: with the variable set to true every URL is accepted and the
\* resolver is not asked; with any other value the call returns what it
\* returns with the variable unset, and rejects the literal loopback and
\* private addresses
C22_OnlyExplicitOptIn ==
    lastEgress.op = "EnsureOutboundURLAllowed" =>
        /\ ExplicitOptIn(lastEgress.override) => (lastEgress.err = "" /\ ~Asked)
        /\ ~ExplicitOptIn(lastEgress.override) =>
              /\ lastEgress.override # <<>> =>
                    lastEgress.err = EnsureOutboundURLAllowed(<<>>, lastEgress.rawURL, lastEgress.resolved).err
              /\ \A url \in {CalledURL} :
                    DisallowedLiteralOf(url, Hostname(url)) => lastEgress.err # ""

\* with the variable set to " TRUE " http://127.0.0.1/ is accepted
C22_Witness ==
    /\ lastEgress.op = "EnsureOutboundURLAllowed"
    /\ lastEgress.override = <<" ", "TRUE", " ">>
    /\ lastEgress.rawURL = <<"http", "://", "127.0.0.1", "/">>
    /\ lastEgress.err = ""
    /\ ~Asked

\* with the variable set to "yes" http://127.0.0.1/ is blocked
C22_OtherValueWitness ==
    /\ lastEgress.op = "EnsureOutboundURLAllowed"
    /\ lastEgress.override = <<"yes">>
    /\ lastEgress.rawURL = <<"http", "://", "127.0.0.1", "/">>
    /\ lastEgress.err = "blocked outbound IP"

(***************************************************************************)
(* C23.  The addresses the web capabilities connect to.                    *)
(***************************************************************************)
\* C23: with the override unset, every address a web capability has
\* connected to, for the first request and for the redirects it followed,
\* is outside the disallowed classes
C23_OnlyAllowedConnections ==
    \A i \in 1..Len(webRequest.connections) : ~DisallowedClass(webRequest.connections[i])

\* a capability whose URL the policy refused has connected to nothing
C23_NoConnectionWhenBlocked ==
    (webRequest.pc = "returned" /\ webRequest.err = "outbound URL blocked") =>
        webRequest.connections = <<>>

(***************************************************************************)
(* C24, C25, C26.  The command policy of Bash.                             *)
(***************************************************************************)
\* Bash has been called with arguments that hold a command
BashCalled == lastBash.op = "Bash" /\ lastBash.parsed /\ TrimSpace(lastBash.command) # <<>>

\* the command of the call as the policy sees it
CalledCommand == TrimSpace(lastBash.command)

\* the command has been started
CommandStarted == lastBash.started # <<>>

\* the patterns a list is written with: the texts that stand between
\* two separators or an end of the list, without the blanks around them
ListPatterns(raw) ==
    { TrimSpace(SubSeq(raw, i, j)) :
        <<i, j>> \in { <<a, b>> \in (1..Len(raw)) \X (1..Len(raw)) :
                        /\ a <= b
                        /\ \A k \in a..b : raw[k] \notin {",", ";", "\n"}
                        /\ a = 1 \/ raw[a - 1] \in {",", ";", "\n"}
                        /\ b = Len(raw) \/ raw[b + 1] \in {",", ";", "\n"} } } \ {<<>>}

\* the command matches a pattern of the fixed blocklist
Destructive ==
    \/ Contains(FoldCommand(CalledCommand), <<"rm", " ", "-rf", " ", "/">>)
    \/ \E word \in {"shutdown", "reboot", "poweroff"} : Contains(FoldCommand(CalledCommand), <<word>>)
    \/ Contains(FoldCommand(CalledCommand), <<"mkfs", ".">>)
    \/ Contains(FoldCommand(CalledCommand), <<"mkfs", " ">>)
    \/ Contains(CalledCommand, <<":(){ :|:& };:">>)

\* the command matches a pattern of the list that compiles
ListMatches(raw) ==
    \E pattern \in ListPatterns(raw) : ~CompileFails(pattern) /\ MatchString(pattern, CalledCommand)

\* a pattern of the list does not compile
Malformed(raw) == \E pattern \in ListPatterns(raw) : CompileFails(pattern)

\* C24: a command is started only if it matches no pattern of the fixed
\* blocklist, no pattern of the denylist and, the allowlist having a
\* pattern, a pattern of the allowlist; a destructive command is blocked
\* whatever the lists hold, and a command that matches a pattern of a
\* well-formed denylist is blocked by the denylist even if the allowlist
\* names it
C24_PolicyOrder ==
    BashCalled =>
        /\ CommandStarted =>
              /\ ~Destructive
              /\ ~ListMatches(lastBash.denylist)
              /\ ListPatterns(lastBash.allowlist) # {} => ListMatches(lastBash.allowlist)
              /\ lastBash.started = <<CalledCommand>>
        /\ Destructive => (lastBash.err = "command blocked by policy" /\ ~CommandStarted)
        /\ (~Destructive /\ ~Malformed(lastBash.denylist) /\ ListMatches(lastBash.denylist)) =>
              (lastBash.err = "command blocked by denylist policy" /\ ~CommandStarted)

\* "git status" is blocked by the denylist "git,curl" although the
\* allowlist names ^git
C24_Witness ==
    /\ BashCalled
    /\ lastBash.command = <<" ", "git", " ", "status", " ">>
    /\ lastBash.denylist = <<"git", ",", "curl">>
    /\ lastBash.allowlist = <<",", "^", "git">>
    /\ ListMatches(lastBash.denylist) /\ ListMatches(lastBash.allowlist)
    /\ lastBash.err = "command blocked by denylist policy"
    /\ ~CommandStarted

\* "ls" is started: the denylist does not name it and the allowlist does
C24_StartedWitness ==
    /\ BashCalled
    /\ lastBash.command = <<"ls">>
    /\ lastBash.denylist = <<"git", ",", "curl">>
    /\ lastBash.allowlist = <<"^", "git", ";", " ", "ls", " ", "\n", "rm">>
    /\ lastBash.started = <<<<"ls">>>>
    /\ lastBash.err = ""

\* C25: whenever a pattern of the denylist or of the allowlist does not
\* compile, Bash returns an error and starts nothing, whatever the
\* command and the other patterns
C25_MalformedPatternIsAnError ==
    (BashCalled /\ (Malformed(lastBash.denylist) \/ Malformed(lastBash.allowlist))) =>
        (lastBash.err # "" /\ ~CommandStarted)

\* "ls" is refused with the allowlist "ls,(x", whose first pattern
\* matches it
C25_Witness ==
    /\ BashCalled
    /\ lastBash.command = <<"ls">>
    /\ lastBash.denylist = <<>>
    /\ lastBash.allowlist = <<"ls", ",", "(", "x">>
    /\ Malformed(lastBash.allowlist)
    /\ lastBash.err = "invalid SHIMIBOT_BASH_ALLOWLIST"
    /\ ~CommandStarted

\* the denylist "curl;(" refuses "ls" as well
C25_DenylistWitness ==
    /\ BashCalled
    /\ lastBash.command = <<"ls">>
    /\ lastBash.denylist = <<"curl", ";", "(">>
    /\ lastBash.err = "invalid SHIMIBOT_BASH_DENYLIST"
    /\ ~CommandStarted

\* C26: with SHIMIBOT_BASH_ALLOWLIST set to a non-empty value, a command
\* that matches none of its patterns is blocked and not started
C26_AllowlistRequiresMatch ==
    (BashCalled /\ lastBash.allowlist # <<>> /\ ~ListMatches(lastBash.allowlist)) =>
        (lastBash.err # "" /\ ~CommandStarted)

\* C26 for the values that hold a pattern
C26_WithAPattern ==
    (BashCalled /\ ListPatterns(lastBash.allowlist) # {} /\ ~ListMatches(lastBash.allowlist)) =>
        (lastBash.err # "" /\ ~CommandStarted)

\* "ls" is started with the allowlist ","
C26_SeparatorsOnlyWitness ==
    /\ BashCalled
    /\ lastBash.command = <<"ls">>
    /\ lastBash.denylist = <<>>
    /\ lastBash.allowlist = <<",">>
    /\ lastBash.started = <<<<"ls">>>>
    /\ lastBash.err = ""

\* "echo git" is blocked by the allowlist ",^git"
C26_BlockedWitness ==
    /\ BashCalled
    /\ lastBash.command = <<"echo", " ", "git">>
    /\ lastBash.denylist = <<>>
    /\ lastBash.allowlist = <<",", "^", "git">>
    /\ lastBash.err = "command blocked by allowlist policy"
    /\ ~CommandStarted

(***************************************************************************)
(* C27, C28, C29.  NormalizeJSONArguments.                                 *)
(***************************************************************************)
\* NormalizeJSONArguments has returned for the text
Normalized == normalizeCall.op \in {"returned", "again"}

\* the text without the blanks around it: what stands between its first
\* and its last character that is no blank
Stripped(text) ==
    IF \A i \in 1..Len(text) : text[i] \in {" ", "\t", "\n", "\r"} THEN <<>>
    ELSE SubSeq(text,
                CHOOSE i \in 1..Len(text) :
                    /\ text[i] \notin {" ", "\t", "\n", "\r"}
                    /\ \A j \in 1..(i - 1) : text[j] \in {" ", "\t", "\n", "\r"},
                CHOOSE i \in 1..Len(text) :
                    /\ text[i] \notin {" ", "\t", "\n", "\r"}
                    /\ \A j \in (i + 1)..Len(text) : text[j] \in {" ", "\t", "\n", "\r"})

\* C27: a blank text gives "{}" and valid, a text that is valid JSON once
\* the blanks around it are removed gives that text and valid, and what
\* NormalizeJSONArguments returned as valid it returns again unchanged
C27_ValidJSONUnchanged ==
    Normalized =>
        /\ Stripped(normalizeCall.raw) = <<>> =>
              normalizeCall.first = [text |-> <<"{", "}">>, valid |-> TRUE]
        /\ (Stripped(normalizeCall.raw) # <<>> /\ JSONValid(Stripped(normalizeCall.raw))) =>
              normalizeCall.first = [text |-> Stripped(normalizeCall.raw), valid |-> TRUE]
        /\ normalizeCall.op = "again" => normalizeCall.second = normalizeCall.first

\* " 1 " gives "1", and "1" gives "1"
C27_Witness ==
    /\ normalizeCall.op = "again"
    /\ normalizeCall.raw = <<" ", "1", " ">>
    /\ normalizeCall.first = [text |-> <<"1">>, valid |-> TRUE]
    /\ normalizeCall.second = normalizeCall.first

\* a blank text gives "{}"
C27_BlankWitness ==
    /\ normalizeCall.op = "again"
    /\ normalizeCall.raw = <<" ", " ">>
    /\ normalizeCall.first = [text |-> <<"{", "}">>, valid |-> TRUE]
    /\ normalizeCall.second = normalizeCall.first

\* an object found in prose is returned again unchanged
C27_SpanWitness ==
    /\ normalizeCall.op = "again"
    /\ normalizeCall.raw = <<"x", " ", "{", "\"", "a", "\"", ":", "1", "}", "x">>
    /\ normalizeCall.first = [text |-> <<"{", "\"", "a", "\"", ":", "1", "}">>, valid |-> TRUE]
    /\ normalizeCall.second = normalizeCall.first

\* the text is a JSON object with prose before it or after it
ObjectInProse == Normalized /\ normalizeCall.span # <<>>

\* C28: a text that is one JSON object with prose before and after it,
\* the prose holding quote characters, backslashes and closing braces,
\* gives that object and valid
C28_SpanReturned ==
    ObjectInProse => normalizeCall.first = [text |-> normalizeCall.span, valid |-> TRUE]

\* C28 for the prose that has no quote character before the object
C28_WithoutQuoteBefore ==
    (ObjectInProse /\ \A i \in 1..Len(normalizeCall.before) : normalizeCall.before[i] # "\"") =>
        normalizeCall.first = [text |-> normalizeCall.span, valid |-> TRUE]

\* the object behind a closing brace and a backslash, with a closing
\* brace after it, is returned
C28_ProseWitness ==
    /\ ObjectInProse
    /\ normalizeCall.before = <<"}", "\\">>
    /\ normalizeCall.span = <<"{", "\"", "a", "\"", ":", "\"", "}", "\"", "}">>
    /\ normalizeCall.after = <<"}">>
    /\ normalizeCall.first = [text |-> normalizeCall.span, valid |-> TRUE]

\* the object behind a quote character is not found
C28_QuoteWitness ==
    /\ ObjectInProse
    /\ normalizeCall.before = <<"\"", " ">>
    /\ normalizeCall.span = <<"{", "\"", "a", "\"", ":", "1", "}">>
    /\ normalizeCall.after = <<>>
    /\ normalizeCall.first = [text |-> <<>>, valid |-> FALSE]

\* the number of the characters of the text that are the given one
Occurrences(text, c) == Cardinality({i \in 1..Len(text) : text[i] = c})

\* the braces or the brackets of the text are unbalanced: an opening or
\* a closing delimiter is missing or surplus
Unbalanced(text) ==
    \/ Occurrences(text, "{") # Occurrences(text, "}")
    \/ Occurrences(text, "[") # Occurrences(text, "]")

\* some part of the text that begins with a brace or a bracket is valid
\* JSON
HoldsValidSpan(text) ==
    \E i \in 1..Len(text) :
        /\ text[i] \in {"{", "["}
        /\ \E j \in i..Len(text) : JSONValid(SubSeq(text, i, j))

\* the statement as it was: a text whose braces or brackets are
\* unbalanced, or that is not valid JSON, gives valid = false
C29_Original ==
    (Normalized /\ Stripped(normalizeCall.raw) # <<>>
        /\ (Unbalanced(normalizeCall.raw) \/ ~JSONValid(Stripped(normalizeCall.raw)))) =>
        ~normalizeCall.first.valid

\* C29: what is returned as valid is valid JSON, and a text that is not
\* blank, is not valid JSON and holds no object or array that is valid
\* JSON gives valid = false with the empty text
C29_InvalidWithoutValidSpan ==
    Normalized =>
        /\ normalizeCall.first.valid => JSONValid(normalizeCall.first.text)
        /\ (/\ Stripped(normalizeCall.raw) # <<>>
            /\ ~JSONValid(Stripped(normalizeCall.raw))
            /\ ~HoldsValidSpan(normalizeCall.raw)) =>
              normalizeCall.first = [text |-> <<>>, valid |-> FALSE]

\* "[1" has an opening bracket that is never closed and gives
\* valid = false
C29_Witness ==
    /\ Normalized
    /\ normalizeCall.raw = <<"[", "1">>
    /\ Unbalanced(normalizeCall.raw)
    /\ ~HoldsValidSpan(normalizeCall.raw)
    /\ normalizeCall.first = [text |-> <<>>, valid |-> FALSE]

\* "{}}" has a surplus closing brace and gives "{}" and valid
C29_SurplusWitness ==
    /\ Normalized
    /\ normalizeCall.raw = <<"{", "}", "}">>
    /\ Unbalanced(normalizeCall.raw)
    /\ normalizeCall.first = [text |-> <<"{", "}">>, valid |-> TRUE]

(***************************************************************************)
(* C30.  A tool call whose arguments cannot be normalized, on its way      *)
(* from the provider through the Runner and DispatchToolCall to the        *)
(* Registry.                                                               *)
(***************************************************************************)
\* the arguments the provider wrote for the tool call the Runner hands on
RawArguments(toolCall) ==
    (CHOOSE sent \in RawArgumentsEnv.pool : sent.ID = toolCall.ID).Arguments

\* the provider's arguments of the tool call cannot be normalized
Unrecoverable(toolCall) == ~NormalizeJSONArguments(RawArguments(toolCall)).valid

\* an error envelope that names the tool
ErrorNamingTool(object, name) ==
    /\ ~DecodeEnvelope(object).OK
    /\ ~DecodeEnvelope(object).Error.isNil
    /\ \E i \in 1..Len(DecodeEnvelope(object).Error.Message) :
          SubSeq(DecodeEnvelope(object).Error.Message, i, i + Len(name) - 1) = name

\* the step in which ExecuteTool returns for a tool call whose arguments
\* could not be normalized: no capability has been invoked, and the tool
\* message is an error envelope naming the tool
C30_NotInvoked ==
    (pc = "executing" /\ pc' # "executing"
        /\ Unrecoverable(CurrentToolCall(toolCalls, callIndex))) =>
            /\ executeInvoked' = executeInvoked
            /\ messageHistory'[Len(messageHistory')].Role = RoleTool
            /\ ErrorNamingTool(messageHistory'[Len(messageHistory')].Content,
                               CurrentToolCall(toolCalls, callIndex).Name)

\* C30: a tool call whose raw arguments cannot be normalized never
\* reaches the capability, and its tool message is an error envelope
\* naming the tool
C30_HardFailure == [][C30_NotInvoked]_vars

\* the call with the arguments "{" has been handed on with "{}", the
\* capability has been invoked and its result is the tool message
C30_InvokedWitness ==
    /\ env = RawArgumentsEnv
    /\ executed = <<ToolCall(<<"1">>, <<"R">>, <<"{", "}">>)>>
    /\ executeInvoked = 1
    /\ LastMessage.Role = RoleTool
    /\ DecodeEnvelope(LastMessage.Content).OK

\* Registry.Execute called with the arguments "{" returns an error
\* envelope naming the tool and invokes nothing
C30_DirectCall ==
    (lastCall.op = "Execute" /\ lastCall.matched
        /\ ~NormalizeJSONArguments(lastCall.toolCall.Arguments).valid
        /\ ~InvalidToolContext(lastCall.toolContext)
        /\ lastCall.toolContext.Context \in {"nil", "live"}) =>
            /\ lastCall.invoked = <<>>
            /\ ErrorNamingTool(lastCall.output, lastCall.toolCall.Name)

(***************************************************************************)
(* C31.  EditPatch: which occurrences are replaced and what is reported.   *)
(***************************************************************************)
\* EditPatch has been executed on the file /w/a
Edited == lastAccess.op = "EditPatch" /\ env = EditEnv

\* the content of the file before the call and after it
ContentBefore == lastAccess.before[<<"w", "a">>].content
ContentAfter == fileSystem[<<"w", "a">>].content

\* the positions of c at which old stands
Positions(c, old) == {i \in 1..(Len(c) - Len(old) + 1) : SubSeq(c, i, i + Len(old) - 1) = old}

\* positions of occurrences no two of which overlap
Apart(positions, old) ==
    \A p, q \in positions : p < q => p + Len(old) <= q

\* the number of non-overlapping occurrences of old in c: the size of
\* the largest set of positions that lie apart
Occurring(c, old) ==
    CHOOSE n \in 0..Len(c) :
        /\ \E positions \in SUBSET Positions(c, old) : Apart(positions, old) /\ Cardinality(positions) = n
        /\ \A positions \in SUBSET Positions(c, old) : Apart(positions, old) => Cardinality(positions) <= n

\* c from position i on, with new in place of the occurrences of old at
\* the given positions
RECURSIVE ReplacedAt(_, _, _, _, _)
ReplacedAt(c, positions, old, new, i) ==
    IF i > Len(c) THEN <<>>
    ELSE IF i \in positions THEN new \o ReplacedAt(c, positions, old, new, i + Len(old))
    ELSE <<c[i]>> \o ReplacedAt(c, positions, old, new, i + 1)

\* the first occurrence of old in c
First(c, old) == CHOOSE p \in Positions(c, old) : \A q \in Positions(c, old) : p <= q

\* C31: with a non-empty old_string that occurs n >= 1 times, the call
\* succeeds and reports total_matches = n; with replace_all false the
\* file holds the content with the first occurrence replaced and
\* replacements is 1, with replace_all true it holds the content with n
\* occurrences lying apart replaced, the first among them, and
\* replacements is n; with an empty old_string or no occurrence the call
\* returns an error and the file is as it was
C31_EditPatchReplaces ==
    Edited =>
        \A c \in {ContentBefore}, old \in {lastAccess.edit.old}, new \in {lastAccess.edit.new} :
            \A n \in {IF old = <<>> THEN 0 ELSE Occurring(c, old)} :
                IF n = 0
                THEN lastAccess.err # "" /\ fileSystem = lastAccess.before
                ELSE /\ lastAccess.err = ""
                     /\ lastAccess.result.total_matches = n
                     /\ lastAccess.result.replace_all = lastAccess.edit.all
                     /\ ~lastAccess.edit.all =>
                            /\ lastAccess.result.replacements = 1
                            /\ ContentAfter = ReplacedAt(c, {First(c, old)}, old, new, 1)
                     /\ lastAccess.edit.all =>
                            /\ lastAccess.result.replacements = n
                            /\ \E positions \in SUBSET Positions(c, old) :
                                  /\ Apart(positions, old)
                                  /\ Cardinality(positions) = n
                                  /\ First(c, old) \in positions
                                  /\ ContentAfter = ReplacedAt(c, positions, old, new, 1)

\* "abab" with old_string "ab", new_string "c" and replace_all false
\* becomes "cab", with one replacement of two matches
C31_Witness ==
    /\ Edited
    /\ ContentBefore = <<"a", "b", "a", "b">>
    /\ lastAccess.edit = [old |-> <<"a", "b">>, new |-> <<"c">>, all |-> FALSE]
    /\ ContentAfter = <<"c", "a", "b">>
    /\ lastAccess.result.replacements = 1
    /\ lastAccess.result.total_matches = 2

\* "aaa" with old_string "aa" and replace_all true: one occurrence, the
\* first, is replaced
C31_OverlapWitness ==
    /\ Edited
    /\ ContentBefore = <<"a", "a", "a">>
    /\ lastAccess.edit = [old |-> <<"a", "a">>, new |-> <<"b">>, all |-> TRUE]
    /\ ContentAfter = <<"b", "a">>
    /\ lastAccess.result.replacements = 1
    /\ lastAccess.result.total_matches = 1

\* "abab" with replace_all true and a new_string that holds old_string
C31_AllWitness ==
    /\ Edited
    /\ ContentBefore = <<"a", "b", "a", "b">>
    /\ lastAccess.edit = [old |-> <<"a">>, new |-> <<"a", "a">>, all |-> TRUE]
    /\ ContentAfter = <<"a", "a", "b", "a", "a", "b">>
    /\ lastAccess.result.replacements = 2

\* old_string does not occur: an error, and the file is as it was
C31_NotFoundWitness ==
    /\ Edited
    /\ ContentBefore = <<"a", "a">>
    /\ lastAccess.edit.old = <<"b">>
    /\ lastAccess.err = ErrOldStringNotFound
    /\ fileSystem = lastAccess.before

(***************************************************************************)
(* C32.  The order of the checks of Registry.Execute.                      *)
(***************************************************************************)
\* the failure conditions of the call Registry.Execute was last made with
UnknownName == lastCall.toolCall.Name \notin DOMAIN toolRegistry.tools
BlankCwdOrRoot == BlankContext(lastCall.toolContext)
ContextOver == lastCall.toolContext.Context \in {"canceled", "deadline"}
Unparsable == ~NormalizeJSONArguments(lastCall.toolCall.Arguments).valid

\* the message of the error envelope the call returned
LastErrorMessage == DecodeEnvelope(lastCall.output).Error.Message

\* C32: the result of Registry.Execute is that of the earliest check that
\* fails, in the order lookup, cwd and allowed_root, cancellation,
\* arguments, invocation
C32_EarliestCheckDecides ==
    lastCall.op = "Execute" =>
        IF UnknownName
        THEN ~lastCall.matched /\ lastCall.output = <<>> /\ lastCall.invoked = <<>>
        ELSE /\ lastCall.matched
             /\ IF BlankCwdOrRoot
                THEN /\ LastErrorMessage = <<"invalid tool context: cwd and allowed_root are required">>
                     /\ lastCall.invoked = <<>>
                ELSE IF ContextOver
                THEN /\ LastErrorMessage[1] \in {"tool execution cancelled", "tool execution context error: "}
                     /\ lastCall.toolContext.Context = "canceled" =>
                            LastErrorMessage = <<"tool execution cancelled">>
                     /\ lastCall.invoked = <<>>
                ELSE IF Unparsable
                THEN /\ LastErrorMessage = lastCall.toolCall.Name \o <<": invalid JSON arguments">>
                     /\ lastCall.invoked = <<>>
                ELSE Len(lastCall.invoked) = 1

\* a blank cwd with a cancelled context: the invalid-context envelope
C32_Witness ==
    /\ lastCall.op = "Execute"
    /\ ~UnknownName
    /\ IsBlank(lastCall.toolContext.CWD)
    /\ lastCall.toolContext.Context = "canceled"
    /\ LastErrorMessage = <<"invalid tool context: cwd and allowed_root are required">>

\* an unknown name with a cancelled context and unparsable arguments
C32_UnknownWitness ==
    /\ lastCall.op = "Execute"
    /\ UnknownName
    /\ ContextOver
    /\ Unparsable
    /\ ~lastCall.matched

\* an unknown name with a blank context
C32_UnknownBlankWitness ==
    /\ lastCall.op = "Execute"
    /\ UnknownName
    /\ BlankCwdOrRoot
    /\ ~lastCall.matched

\* a cancelled context with unparsable arguments: the cancellation envelope
C32_CancelledWitness ==
    /\ lastCall.op = "Execute"
    /\ ~UnknownName
    /\ ~BlankCwdOrRoot
    /\ lastCall.toolContext.Context = "canceled"
    /\ Unparsable
    /\ LastErrorMessage = <<"tool execution cancelled">>

(***************************************************************************)
(* C33.  Tool calls the provider returns with a blank id or name.          *)
(***************************************************************************)
\* a text that is empty or holds nothing but white space
OnlySpace(text) == \A i \in 1..Len(text) : text[i] \in {" ", "\t", "\n", "\r"}

\* a tool call with a blank id or a blank name
BlankCall(toolCall) == OnlySpace(toolCall.ID) \/ OnlySpace(toolCall.Name)

\* how many of the tool calls the provider sent are not blank
SentNotBlank(calls) == Cardinality({i \in 1..Len(calls) : ~BlankCall(calls[i])})

\* the messages RunPrompt has appended in this invocation
AppendedNow == SubSeq(messageHistory, Len(callArgs.history) + 1, Len(messageHistory))

\* no blank tool call is in an assistant message appended in this
\* invocation, none has been passed to ExecuteTool, none has a tool
\* message, and the calls counted are calls that were executed
C33_NoBlankCall ==
    /\ \A i \in 1..Len(AppendedNow) :
          /\ \A j \in 1..Len(AppendedNow[i].ToolCalls) : ~BlankCall(AppendedNow[i].ToolCalls[j])
          /\ AppendedNow[i].Role = RoleTool => ~OnlySpace(AppendedNow[i].ToolCallID)
    /\ \A i \in 1..Len(executed) : ~BlankCall(executed[i])
    /\ toolCallsUsed <= Len(executed)

\* the step in which Complete returns a choice: the budget is compared
\* with the calls that are not blank, and a turn all of whose calls are
\* blank ends the prompt without error
C33_TurnWithBlankCalls ==
    (pc = "completing" /\ messageHistory' # messageHistory) =>
        /\ (pc' = "returned" /\ result'.err = ErrToolCallBudgetExceeded) =>
              toolCallsUsed + SentNotBlank(choiceMessage'.ToolCalls) > runner.Policy.MaxToolCalls
        /\ (pc' = "dispatch" /\ runner.Policy.MaxToolCalls > 0) =>
              toolCallsUsed + SentNotBlank(choiceMessage'.ToolCalls) <= runner.Policy.MaxToolCalls
        /\ SentNotBlank(choiceMessage'.ToolCalls) = 0 =>
              /\ pc' = "returned"
              /\ result'.err = ErrNil
              /\ messageHistory'[Len(messageHistory')].ToolCalls = <<>>

\* C33: a tool call with a blank id or name is dropped: it is not in the
\* assistant message, is not passed to ExecuteTool, has no tool message and
\* is not counted against MaxToolCalls; a turn all of whose tool calls are
\* dropped is the final turn, and RunPrompt returns without error
\* whatever the finish reason
C33_BlankCallsDropped == []C33_NoBlankCall /\ [][C33_TurnWithBlankCalls]_vars

\* the provider sent two blank tool calls with finish reason tool_calls,
\* and RunPrompt returned without error having executed nothing
C33_Witness ==
    /\ pc = "returned"
    /\ finishReason = "tool_calls"
    /\ Len(choiceMessage.ToolCalls) = 2
    /\ SentNotBlank(choiceMessage.ToolCalls) = 0
    /\ result.err = ErrNil
    /\ executed = <<>>
    /\ messageHistory[Len(messageHistory)].Role = RoleAssistant
    /\ messageHistory[Len(messageHistory)].ToolCalls = <<>>

\* with MaxToolCalls = 1 a turn of a blank call and another one is
\* executed: one call, one tool message
C33_BudgetWitness ==
    /\ runner.Policy.MaxToolCalls = 1
    /\ Len(choiceMessage.ToolCalls) = 2
    /\ SentNotBlank(choiceMessage.ToolCalls) = 1
    /\ pc = "loop"
    /\ toolCallsUsed = 1
    /\ Len(executed) = 1
    /\ messageHistory[Len(messageHistory)].Role = RoleTool

(***************************************************************************)
(* C34.  A tool call that fails does not end the prompt.                   *)
(***************************************************************************)
\* the text is an error envelope
IsErrorEnvelope(object) == ~DecodeEnvelope(object).OK /\ ~DecodeEnvelope(object).Error.isNil

\* the step in which ExecuteTool returns an error envelope: the envelope
\* becomes the tool message of the call, RunPrompt does not return, and
\* it goes on with the next call of the turn or, after the last one, with
\* the loop
C34_ErrorEnvelopeAppended ==
    (pc = "executing" /\ pc' # "executing"
        /\ IsErrorEnvelope(messageHistory'[Len(messageHistory')].Content)) =>
            /\ Len(messageHistory') = Len(messageHistory) + 1
            /\ messageHistory'[Len(messageHistory')].Role = RoleTool
            /\ messageHistory'[Len(messageHistory')].ToolCallID = toolCalls[callIndex].ID
            /\ result' = result
            /\ toolCalls' = toolCalls
            /\ IF callIndex < Len(toolCalls)
               THEN pc' = "dispatch" /\ callIndex' = callIndex + 1
               ELSE pc' = "loop" /\ turnNumber' = turnNumber + 1

\* what RunPrompt returns an error for: the context, a budget, the provider
C34_ErrorsOfRunPrompt ==
    pc = "returned" =>
        /\ result.err \in {ErrNil, ErrCanceled, ErrMaxTurnsExceeded, ErrToolCallBudgetExceeded,
                           ErrProvider, ErrNoChoices, ErrUnsupportedRole}
        /\ result.err = ErrCanceled => ctxErr
        /\ result.err = ErrMaxTurnsExceeded => turnNumber > runner.Policy.MaxTurns
        /\ result.err \in {ErrProvider, ErrNoChoices, ErrUnsupportedRole} =>
              messageHistory[Len(messageHistory)].Role \in {RoleUser, RoleTool}

\* C34: an error envelope returned by ExecuteTool is appended as the tool
\* message of its call, the remaining calls of the turn are dispatched and
\* the loop goes on; RunPrompt returns an error only for the context, a
\* budget or the provider
C34_FailingToolDoesNotAbort == []C34_ErrorsOfRunPrompt /\ [][C34_ErrorEnvelopeAppended]_vars

\* the first call of a turn failed in the capability, the second named an
\* unknown tool, and the provider has been called again
C34_Witness ==
    /\ env = FailingToolsEnv
    /\ completeCalls = 2
    /\ pc = "completing"
    /\ ~ctxErr
    /\ Len(executed) = 2
    /\ messageHistory[Len(messageHistory) - 1].Role = RoleTool
    /\ DecodeEnvelope(messageHistory[Len(messageHistory) - 1].Content).Error.Message
          = <<"R", ": ", "path policy violation: ", "path is outside allowed root">>
    /\ TellsUnknownTool(LastMessage.Content, <<"W">>)

\* the prompt has ended without error after a turn whose call failed
C34_ReturnedWitness ==
    /\ env = FailingToolsEnv
    /\ pc = "returned"
    /\ result.err = ErrNil
    /\ \E i \in 1..Len(messageHistory) :
          messageHistory[i].Role = RoleTool /\ IsErrorEnvelope(messageHistory[i].Content)

(***************************************************************************)
(* C35.  Cancellation between the tool calls of a turn.                    *)
(***************************************************************************)
\* the ids of the tool messages appended in this invocation, in order
RECURSIVE ToolMessageIDs(_)
ToolMessageIDs(messages) ==
    IF messages = <<>> THEN <<>>
    ELSE IF messages[1].Role = RoleTool
    THEN <<messages[1].ToolCallID>> \o ToolMessageIDs(Tail(messages))
    ELSE ToolMessageIDs(Tail(messages))

\* once the context is cancelled no tool call is passed to ExecuteTool
\* and the provider is not called; at the check before a dispatch
\* RunPrompt returns the error of the context and leaves history as it is
C35_NothingAfterCancellation ==
    ctxErr =>
        /\ executed' = executed
        /\ completeCalls' = completeCalls
        /\ pc = "dispatch" =>
              /\ pc' = "returned"
              /\ result' = [text |-> lastAssistantText, err |-> ErrCanceled]
              /\ messageHistory' = messageHistory

\* outside a dispatch, the tool messages of this invocation are those
\* of the calls passed to ExecuteTool, in order; during one, the call
\* being executed has none yet
C35_ToolMessagesOfDispatched ==
    /\ pc # "executing" =>
          ToolMessageIDs(AppendedNow) = [i \in 1..Len(executed) |-> executed[i].ID]
    /\ pc = "executing" =>
          ToolMessageIDs(AppendedNow) = [i \in 1..(Len(executed) - 1) |-> executed[i].ID]

\* C35: when the context is cancelled before the check that precedes the
\* dispatch of a tool call, that call and the later ones of the turn are
\* not passed to ExecuteTool, the provider is not called again, RunPrompt
\* returns the cancellation error, and history holds tool messages for
\* exactly the calls that were dispatched
C35_CancelledBetweenCalls == []C35_ToolMessagesOfDispatched /\ [][C35_NothingAfterCancellation]_vars

\* the context was cancelled while the first of two calls was executing:
\* RunPrompt has returned the cancellation error, one call was passed to
\* ExecuteTool and one tool message follows the assistant message
C35_Witness ==
    /\ pc = "returned"
    /\ result.err = ErrCanceled
    /\ Len(toolCalls) = 2
    /\ callIndex = 2
    /\ executed = <<toolCalls[1]>>
    /\ completeCalls = 1
    /\ LastMessage.Role = RoleTool
    /\ LastMessage.ToolCallID = toolCalls[1].ID
    /\ messageHistory[Len(messageHistory) - 1].ToolCalls = toolCalls

\* the context is cancelled while the first of two calls is executing
C35_ExecutingWitness ==
    /\ pc = "executing"
    /\ ctxErr
    /\ callIndex = 1
    /\ Len(toolCalls) = 2

(***************************************************************************)
(* C36.  Path confinement while another process changes the filesystem.    *)
(***************************************************************************)
\* a real location under the real root /w
UnderRoot(at) == at # <<>> /\ at[1] = "w"

\* C36: whatever a file capability has opened for reading or writing has
\* its real location inside the real allowed root
C36_OpensInsideRoot == \A at \in fileOp.opened : UnderRoot(at)

\* as long as nothing has changed since EnsurePathAllowed returned, what
\* the capability opens is inside the root
C36_InsideWithoutChange ==
    ~fileOp.changedSince => \A at \in fileOp.opened : UnderRoot(at)

\* a symlink put in place before the capability starts is refused
C36_RefusedWitness ==
    /\ fileOp.pc = "returned"
    /\ fileSystem[<<"w", "a">>].kind = "symlink"
    /\ ~fileOp.changedSince
    /\ fileOp.err = <<PathPolicyViolation, ErrOutsideRoot>>
    /\ fileOp.opened = {}

\* Write has created /o/n: /w/a became a symlink to /o after the check
C36_WriteOutsideWitness ==
    /\ fileOp.pc = "returned"
    /\ fileOp.tool = "Write"
    /\ fileOp.err = ""
    /\ fileOp.opened = {<<"o", "n">>}
    /\ <<"o", "n">> \in DOMAIN fileSystem

\* EditPatch has read /w/a and written /o/a
C36_EditOutsideWitness ==
    /\ fileOp.pc = "returned"
    /\ fileOp.tool = "EditPatch"
    /\ fileOp.err = ""
    /\ fileOp.opened = {<<"w", "a">>, <<"o", "a">>}
    /\ fileSystem[<<"o", "a">>].content = <<"out">>

(***************************************************************************)
(* C37.  The timeout error of Bash and the deadline.                       *)
(***************************************************************************)
\* Execute has returned after having started the command
BashRan == bashRun.pc = "returned" /\ bashRun.completed # ""

\* the deadline had fired when the command ended
CutOffByDeadline == bashRun.ctxErrAtExit = "deadline"

\* C37: the result is the timeout error exactly when the deadline fired
\* before the command completed
C37_TimeoutExactlyWhenCutOff ==
    BashRan => (bashRun.err = "bash command timed out" <=> CutOffByDeadline)

\* the half of it the code keeps: a command the deadline cut off gives the
\* timeout error, never the generic execution error
C37_CutOffReportsTimeout ==
    (BashRan /\ CutOffByDeadline) => bashRun.err = "bash command timed out"

\* a command that ended with no deadline fired up to the return of Execute
\* never gives the timeout error
C37_NoDeadlineNoTimeout ==
    (BashRan /\ bashRun.ctxErr # "deadline") => bashRun.err # "bash command timed out"

\* the command was cut off and the timeout error returned
C37_CutOffWitness ==
    /\ BashRan
    /\ bashRun.completed = "killed"
    /\ CutOffByDeadline
    /\ bashRun.err = "bash command timed out"

\* the command completed with status 0 before the deadline fired, the
\* deadline fired before commandCtx.Err() was asked, and the result is
\* the timeout error
C37_CompletedYetTimedOut ==
    /\ BashRan
    /\ bashRun.completed = "ok"
    /\ bashRun.ctxErrAtExit = "nil"
    /\ bashRun.ctxErr = "deadline"
    /\ bashRun.err = "bash command timed out"

(***************************************************************************)
(* C38.  The history RunPrompt leaves when it returns a nil error.         *)
(***************************************************************************)
\* the ids of the tool messages a sequence of messages begins with
RECURSIVE LeadingToolIDs(_)
LeadingToolIDs(messages) ==
    IF messages = <<>> \/ messages[1].Role # RoleTool THEN <<>>
    ELSE <<messages[1].ToolCallID>> \o LeadingToolIDs(Tail(messages))

\* the ids of the tool calls of a message, in order
CallIDs(m) == [k \in 1..Len(m.ToolCalls) |-> m.ToolCalls[k].ID]

\* the i-th message appended in this invocation is followed by one tool
\* message for each of its tool calls, in order and with its id
AnsweredAt(i) ==
    LeadingToolIDs(SubSeq(AppendedNow, i + 1, Len(AppendedNow))) = CallIDs(AppendedNow[i])

\* C38: when RunPrompt has returned a nil error, every tool call of an
\* assistant message appended in the invocation has its tool message: no
\* assistant message is left with unanswered tool calls
C38_CompleteForResumption ==
    Returned(ErrNil) =>
        \A i \in 1..Len(AppendedNow) : AppendedNow[i].Role = RoleAssistant => AnsweredAt(i)

\* what the code keeps: RunPrompt returns nil right after it has appended
\* an assistant message, every earlier assistant message of the invocation
\* is answered, and the last one is unless it holds tool calls, which it
\* does only when the finish reason is "stop"
C38_AnsweredUpToLastTurn ==
    Returned(ErrNil) =>
        /\ LastMessage.Role = RoleAssistant
        /\ \A i \in 1..(Len(AppendedNow) - 1) : AppendedNow[i].Role = RoleAssistant => AnsweredAt(i)
        /\ LastMessage.ToolCalls # <<>> => finishReason = "stop"

\* RunPrompt has returned nil after a turn with finish reason "stop" and a
\* tool call: history ends with an assistant message whose call has no
\* tool message, and nothing was executed for it
C38_UnansweredWitness ==
    /\ Returned(ErrNil)
    /\ finishReason = "stop"
    /\ LastMessage.Role = RoleAssistant
    /\ Len(LastMessage.ToolCalls) = 1
    /\ executed = <<>>
    /\ completeCalls = 1

\* RunPrompt has returned nil after a turn with tool calls and a turn
\* without: history is complete
C38_CompleteWitness ==
    /\ Returned(ErrNil)
    /\ completeCalls = 2
    /\ Len(executed) = 2
    /\ LastMessage.ToolCalls = <<>>
    /\ \A i \in 1..Len(AppendedNow) : AppendedNow[i].Role = RoleAssistant => AnsweredAt(i)

(***************************************************************************)
(* C39.  The message lists handed to the provider within one invocation.   *)
(***************************************************************************)
\* the provider has been called and has not returned: messageHistory is
\* the list of the request
InComplete == pc = "completing"

\* the position in AppendedNow of the last assistant message, 0 for none
LastAssistantAt ==
    LET at == {i \in 1..Len(AppendedNow) : AppendedNow[i].Role = RoleAssistant}
    IN IF at = {} THEN 0 ELSE CHOOSE i \in at : \A j \in at : j <= i

\* the list ends with the assistant message of the previous turn, which
\* holds tool calls, and one tool message for each of them, in the order
\* of the calls and with their ids, and nothing else
EndsWithAnsweredTurn ==
    \E i \in {LastAssistantAt} :
        /\ i > 0
        /\ AppendedNow[i].ToolCalls # <<>>
        /\ Len(AppendedNow) = i + Len(AppendedNow[i].ToolCalls)
        /\ \A k \in 1..Len(AppendedNow[i].ToolCalls) :
              /\ AppendedNow[i + k].Role = RoleTool
              /\ AppendedNow[i + k].ToolCallID = AppendedNow[i].ToolCalls[k].ID

\* C39: at every Complete call after the first of an invocation, history
\* ends with the previous turn's assistant message followed by exactly one
\* tool message per tool call of it, in order and with matching ids; and
\* at no Complete call is a tool call of the invocation unanswered
C39_RequestsWellFormed ==
    InComplete =>
        /\ completeCalls >= 2 => EndsWithAnsweredTurn
        /\ completeCalls = 1 => AppendedNow = <<Message(RoleUser, callArgs.prompt, <<>>, <<>>)>>
        /\ \A i \in 1..Len(AppendedNow) : AppendedNow[i].Role = RoleAssistant => AnsweredAt(i)

\* the second Complete call of an invocation, after a turn of two tool calls
C39_Witness ==
    /\ InComplete
    /\ completeCalls = 2
    /\ Len(AppendedNow) = 4
    /\ Len(AppendedNow[2].ToolCalls) = 2
    /\ AppendedNow[3].ToolCallID = AppendedNow[2].ToolCalls[1].ID
    /\ AppendedNow[4].ToolCallID = AppendedNow[2].ToolCalls[2].ID
    /\ AppendedNow[3].ToolCallID # AppendedNow[4].ToolCallID

(***************************************************************************)
(* C40.  Termination of RunPrompt.                                         *)
(***************************************************************************)
\* one of the two budgets of the Policy is set
BudgetSet == runner.Policy.MaxTurns > 0 \/ runner.Policy.MaxToolCalls > 0

\* the provider calls of an invocation are at most MaxTurns when it is
\* set, and at most MaxToolCalls + 1 when that is set
C40_ProviderCallsBounded ==
    /\ runner.Policy.MaxTurns > 0 => completeCalls <= runner.Policy.MaxTurns
    /\ runner.Policy.MaxToolCalls > 0 => completeCalls <= runner.Policy.MaxToolCalls + 1

\* a turn that continues the loop has consumed at least one tool call
C40_ContinuingTurnConsumes ==
    (pc = "executing" /\ pc' = "loop") => toolCallsUsed' >= toolCallsUsed + 1

\* with both budgets 0, once the provider has requested a tool and the
\* turn goes on, RunPrompt returns only with the context cancelled
C40_ReturnsOnlyOnCancel ==
    (~BudgetSet /\ pc \in {"loop", "dispatch", "executing"} /\ pc' = "returned") =>
        /\ ctxErr
        /\ result'.err = ErrCanceled

\* a RunPrompt that has started returns when a budget is set
C40_Returns == (BudgetSet /\ pc # "idle") ~> (pc = "returned")

\* C40: provided every provider call and every tool dispatch returns,
\* RunPrompt returns whenever a budget is set, after at most MaxTurns
\* provider calls when MaxTurns > 0 and at most MaxToolCalls + 1 when
\* MaxToolCalls > 0, every continuing turn consuming a tool call; with
\* both budgets 0 a turn that requests a tool ends only by cancellation
C40_Terminates ==
    /\ []C40_ProviderCallsBounded
    /\ [][C40_ContinuingTurnConsumes /\ C40_ReturnsOnlyOnCancel]_vars
    /\ C40_Returns

\* MaxTurns = 0 and MaxToolCalls = 2: RunPrompt has returned the budget
\* error at its third provider call, two calls executed in two turns
C40_Witness ==
    /\ Returned(ErrToolCallBudgetExceeded)
    /\ runner.Policy.MaxTurns = 0
    /\ runner.Policy.MaxToolCalls = 2
    /\ completeCalls = 3
    /\ Len(executed) = 2
    /\ ~ctxErr

\* MaxTurns = 2 and no tool budget: returned at the turn test after two
\* provider calls
C40_TurnsWitness ==
    /\ Returned(ErrMaxTurnsExceeded)
    /\ runner.Policy.MaxTurns = 2
    /\ runner.Policy.MaxToolCalls = 0
    /\ completeCalls = 2
    /\ ~ctxErr

\* both budgets 0: the third turn has requested a tool again and the
\* context is not cancelled
C40_UnboundedWitness ==
    /\ ~BudgetSet
    /\ pc = "dispatch"
    /\ completeCalls = 3
    /\ ~ctxErr

====
